---- MODULE Spec2Model ----
(***************************************************************************)
(* Request lifecycle of the Monzo webhook handler                          *)
(* (src/src/gateway/monzo-webhook.js) together with the retry              *)
(* classification of src/src/utils/retry-handler.js.                       *)
(*                                                                         *)
(* A request is identified by the requestId handleConnectRequest generates *)
(* for it.  The connector, the wallet client and the callback client are   *)
(* the injected collaborators of the handler: each call made to one of     *)
(* them is modelled by the step that makes the call and by the step at     *)
(* which the awaited promise settles, with the outcome (a value, a failure *)
(* result, or a rejection) chosen nondeterministically.  Between two       *)
(* awaits the handler's code runs without interleaving, as on the          *)
(* JavaScript event loop.                                                  *)
(***************************************************************************)
EXTENDS Integers, Sequences, FiniteSets, TLC

\* ---------------------------------------------------------------- bounds
\* Number of webhook requests received in one run.
MaxRequests == 2

\* Number of webhook requests received in one run of FairSpec.
MaxFairRequests == 1

\* Number of webhook requests received in one run of QuerySpec.
MaxQueryRequests == 1

\* Largest number of keys of a mapping nested in a checksummed payload.
MaxKeys == 2

\* Largest length of an array nested in a checksummed payload.
MaxItems == 2

\* Length of the outcome sequence of httpClient.post, and largest
\* options.maxRetries a CallbackClient is constructed with.
MaxPosts == 3

\* Length of the outcome sequence of the operation handed to withRetry, and
\* largest maxAttempts a RetryHandler is constructed with.
MaxOps == 3

\* Number of equidistant values Math.random() is drawn from.
JitterSteps == 4
MaxAccepts == 3
MaxAttempt == 7
MaxNow == 2

Ids == 1..MaxRequests

\* ------------------------------------------------------- program constants
\* config.retry.maxAttempts
maxAttempts == 3

\* CallbackClient: options.maxRetries || 3
maxRetries == 3

\* CallbackClient: options.retryDelay || 1000 (ms)
retryDelay == 1000

\* config.retry.baseDelay (ms)
baseDelay == 1000

\* config.retry.maxDelay (ms)
maxDelay == 30000

\* config.retry.backoffMultiplier
backoffMultiplier == 2

\* retryableCodes of RetryHandler.isRetryable
retryableCodes == {429, 500, 502, 503, 504}

\* ----------------------------------------------------------------- inputs
\* What extractJwtToken / validateJwtToken make of the request's token.
TokenInputs == {"missing", "invalid", "valid"}

\* req.body.callback_url: absent (undefined), the empty string, a string
\* the URL constructor rejects, a string it accepts.
NoUrl == "undefined"
EmptyUrl == ""
BadUrl == "not-a-url"
GoodUrl == "https://example.com/cb"
CallbackInputs == {NoUrl, EmptyUrl, BadUrl, GoodUrl}

\* Outcomes of callbackClient.sendStatusCallback: a result with
\* success=true, a result with success=false, a rejected promise.
CallbackOutcomes == {"ok", "fail", "raise"}

\* Outcomes of connector.testConnection.
ConnectionOutcomes == {"ok", "fail", "raise"}

\* Outcomes of walletClient.storeCompleteData.
StoreOutcomes == {"ok", "fail", "raise"}

\* Failures connector.getCompleteAccountData may reject with: the optional
\* retryable flag ("unset" when the failure carries none) and the HTTP
\* status and statusCode (0 when the failure carries none, as for a network
\* error).
ExtractErrors ==
  { [kind |-> "extract", retryable |-> "unset", status |-> 503, statusCode |-> 0],
    [kind |-> "extract", retryable |-> "unset", status |-> 400, statusCode |-> 0],
    [kind |-> "extract", retryable |-> "unset", status |-> 0, statusCode |-> 0] }

\* The failures the job raises itself or receives from other collaborators.
NoError == [kind |-> "none", retryable |-> "unset", status |-> 0, statusCode |-> 0]
ErrNoToken == [kind |-> "no_token", retryable |-> "unset", status |-> 0, statusCode |-> 0]
ErrConnFailed == [kind |-> "connection_failed", retryable |-> "unset", status |-> 0, statusCode |-> 0]
ErrConnRaised == [kind |-> "connection_raised", retryable |-> "unset", status |-> 0, statusCode |-> 0]
ErrCallback == [kind |-> "callback_raised", retryable |-> "unset", status |-> 0, statusCode |-> 0]

VARIABLES
  nextId,           \* number of requestIds generated so far
  mode,             \* per request: "none", "rejected", "sync", "async"
  pendingRequests,  \* the Map requestId -> request record
  pc,               \* per request: the await the request's task is parked at
  responses,        \* per request: the HTTP responses written to res
  notifs,           \* per request: statuses handed to sendStatusCallback
  extractCalls,     \* per request: calls of connector.getCompleteAccountData
  storeCalls,       \* per request: calls of walletClient.storeCompleteData
  caught,           \* per request: the failure the job's catch block received
  timer,            \* per request: the cleanup setTimeout
  callbackUrl,      \* per request: the callbackUrl handleAsyncRequest received
  settled,          \* per request: how the call last awaited settled
  lastQuery,        \* the last getRequestStatus call: its argument and result
  retry,            \* one run of RetryHandler.withRetry
  callback,         \* one run of CallbackClient.sendCallback
  integrity,        \* one use of the Integrity checksum functions
  clock,            \* per request: minutes since terminal, since the timer was set
  wallet,           \* one run of WalletClient.storeData
  idgen             \* requestIds generated and the records stored under them

vars == <<nextId, mode, pendingRequests, pc, responses, notifs,
          extractCalls, storeCalls, caught, timer, callbackUrl, settled,
          lastQuery, retry, callback, integrity, clock, wallet, idgen>>

\* The state of the webhook handler.
handlerVars == <<nextId, mode, pendingRequests, pc, responses, notifs,
                 extractCalls, storeCalls, caught, timer, callbackUrl, settled>>

\* ------------------------------------------------------------ Map helpers
\* Map.prototype.set
MapSet(m, k, v) == [x \in (DOMAIN m) \cup {k} |-> IF x = k THEN v ELSE m[x]]

\* Map.prototype.delete
MapDelete(m, k) == [x \in (DOMAIN m) \ {k} |-> m[x]]

\* Map.prototype.has
MapHas(m, k) == k \in DOMAIN m

\* JavaScript truthiness of a callback URL value.
Truthy(url) == url # NoUrl /\ url # EmptyUrl

\* ------------------------------------------------------- pure functions
\* generateRequestId: `monzo_${Date.now()}_${random}`; the n-th generated
\* id is taken to differ from the earlier ones.
generateRequestId(n) == n + 1

\* isValidUrl: does new URL(string) succeed.
isValidUrl(url) == url = GoodUrl

\* Variant: the status code is looked at before the explicit flag.
isRetryable_StatusFirst(error) ==
  IF error.status \in retryableCodes \/ error.statusCode \in retryableCodes
    THEN TRUE
    ELSE error.retryable = "true"

\* RetryHandler.isRetryable
isRetryable(error) ==
  IF error.retryable # "unset"
    THEN error.retryable = "true"
    ELSE error.status \in retryableCodes \/ error.statusCode \in retryableCodes

\* respondWithError
ErrorResponse(code, statusCode) ==
  [http |-> statusCode, status |-> "error", code |-> code, stored |-> FALSE]

\* The 202 acknowledgment of handleAsyncRequest.
AckResponse ==
  [http |-> 202, status |-> "accepted", code |-> "none", stored |-> FALSE]

\* The 200 response of handleSyncRequest.
SuccessResponse(walletStored) ==
  [http |-> 200, status |-> "success", code |-> "none", stored |-> walletStored]

\* ------------------------------------------------------- request records
\* Variant: the new record is stamped with completedAt next to createdAt.
NewRecord_Stamped(cb) ==
  [callbackUrl |-> cb, status |-> "pending", completedAt |-> "set",
   result |-> "unset", walletResult |-> "unset", error |-> "unset"]

\* The record handleAsyncRequest stores for an accepted request.
NewRecord(cb) ==
  [callbackUrl |-> cb, status |-> "pending", completedAt |-> "unset",
   result |-> "unset", walletResult |-> "unset", error |-> "unset"]

\* Variant: the processing notification is never sent.
HasProcessingCallback_Never(rec) == FALSE

\* if (requestData.callbackUrl) before the processing notification
HasProcessingCallback(rec) == Truthy(rec.callbackUrl)

\* Variant: the completion notification is never sent.
HasCompletionCallback_Never(rec) == FALSE

\* if (requestData.callbackUrl) before the completion notification
HasCompletionCallback(rec) == Truthy(rec.callbackUrl)

\* Variant: the failure notification is sent without looking at the URL.
HasFailureCallback_Always(rec) == TRUE

\* if (requestData.callbackUrl) before the failure notification
HasFailureCallback(rec) == Truthy(rec.callbackUrl)

\* The status field of the three payloads processAsyncRequest hands to
\* callbackClient.sendStatusCallback.
ProcessingPayload == "processing"
CompletedPayload == "completed"
FailedPayload == "failed"

\* walletResult after the storage call: the value it resolved with, or
\* { success: false } built by the catch around it.
WalletResultOf(outcome) == IF outcome = "ok" THEN "ok" ELSE "failed"

\* Variant: a storage failure fails the request.
MarkCompleted_FailsOnStorage(rec, outcome) ==
  IF outcome = "ok"
    THEN [rec EXCEPT !.status = "completed", !.completedAt = "set",
                     !.result = "data", !.walletResult = "ok"]
    ELSE [rec EXCEPT !.status = "failed", !.completedAt = "set",
                     !.walletResult = "failed", !.error = "storage"]

\* "Mark as completed" of processAsyncRequest.
MarkCompleted(rec, outcome) ==
  [rec EXCEPT !.status = "completed", !.completedAt = "set",
              !.result = "data", !.walletResult = WalletResultOf(outcome)]

\* Variant: the catch block records the error but not the status.
MarkFailed_KeepsStatus(rec, err) ==
  [rec EXCEPT !.completedAt = "set", !.error = err.kind]

\* "Mark as failed" of processAsyncRequest's catch block.
MarkFailed(rec, err) ==
  [rec EXCEPT !.status = "failed", !.completedAt = "set", !.error = err.kind]

\* Variant: a record is reported only once its job has ended.
getRequestStatus_HidesRunning(id) ==
  IF ~MapHas(pendingRequests, id)
       \/ pendingRequests[id].status \in {"pending", "processing"}
    THEN [status |-> "not_found"]
    ELSE [status |-> pendingRequests[id].status,
          completedAt |-> pendingRequests[id].completedAt,
          hasCallback |-> Truthy(pendingRequests[id].callbackUrl),
          result |-> IF pendingRequests[id].status = "completed"
                       THEN pendingRequests[id].result ELSE "unset",
          error |-> pendingRequests[id].error]

\* getRequestStatus: null for an id the map does not hold, else the
\* projection of the stored record.
NotFound == [status |-> "not_found"]
getRequestStatus(id) ==
  IF ~MapHas(pendingRequests, id)
    THEN NotFound
    ELSE [status |-> pendingRequests[id].status,
          completedAt |-> pendingRequests[id].completedAt,
          hasCallback |-> Truthy(pendingRequests[id].callbackUrl),
          result |-> IF pendingRequests[id].status = "completed"
                       THEN pendingRequests[id].result ELSE "unset",
          error |-> pendingRequests[id].error]

\* ------------------------------------------------------------------- Init
\* No getRequestStatus call made yet.
NoQuery == [id |-> 0, result |-> NotFound]

\* No withRetry run in progress.
RetryIdle == [pc |-> "idle"]

\* The handler as its constructor leaves it: an empty request map.
HandlerInit ==
  /\ nextId = 0
  /\ mode = [i \in Ids |-> "none"]
  /\ pendingRequests = <<>>
  /\ pc = [i \in Ids |-> "idle"]
  /\ responses = [i \in Ids |-> <<>>]
  /\ notifs = [i \in Ids |-> <<>>]
  /\ extractCalls = [i \in Ids |-> 0]
  /\ storeCalls = [i \in Ids |-> 0]
  /\ caught = [i \in Ids |-> NoError]
  /\ timer = [i \in Ids |-> "none"]
  /\ callbackUrl = [i \in Ids |-> NoUrl]
  /\ settled = [i \in Ids |-> "none"]

\* sendCallback has not been called.
CallbackIdle == [pc |-> "idle"]

\* No checksum function has been called.
IntegrityIdle == [pc |-> "idle"]

\* No time has passed for any request.
ClockZero == [i \in Ids |-> [sinceTerminal |-> 0, sinceTimerSet |-> 0]]

\* storeData has not been called.
WalletIdle == [pc |-> "idle"]

\* No requestId has been generated.
IdgenIdle == [pc |-> "idle"]

Init ==
  /\ HandlerInit
  /\ lastQuery = NoQuery
  /\ retry = RetryIdle
  /\ callback = CallbackIdle
  /\ integrity = IntegrityIdle
  /\ clock = ClockZero
  /\ wallet = WalletIdle
  /\ idgen = IdgenIdle

\* ---------------------------------------------------- handleConnectRequest
\* Variant: respondWithError is called without return, so the handler
\* goes on to accept the request for asynchronous processing.
Reject_FallsThrough(id, code, statusCode) ==
  /\ mode' = [mode EXCEPT ![id] = "rejected"]
  /\ responses' = [responses EXCEPT ![id] =
                     Append(Append(@, ErrorResponse(code, statusCode)), AckResponse)]
  /\ pendingRequests' = MapSet(pendingRequests, id, NewRecord(NoUrl))
  /\ pc' = [pc EXCEPT ![id] = "scheduled"]
  /\ UNCHANGED <<notifs, extractCalls, storeCalls, caught, timer>>

\* A request answered by respondWithError before any work started.
Reject(id, code, statusCode) ==
  /\ mode' = [mode EXCEPT ![id] = "rejected"]
  /\ responses' = [responses EXCEPT ![id] = Append(@, ErrorResponse(code, statusCode))]
  /\ pc' = [pc EXCEPT ![id] = "done"]
  /\ UNCHANGED <<pendingRequests, notifs, extractCalls, storeCalls, caught, timer>>

\* Variant: processAsyncRequest is called directly, before the 202 is
\* written, so its first segment has run when the acknowledgment appears.
AsyncAccept_JobFirst(id, cb) ==
  /\ mode' = [mode EXCEPT ![id] = "async"]
  /\ pendingRequests' =
       MapSet(pendingRequests, id, [NewRecord(cb) EXCEPT !.status = "processing"])
  /\ notifs' = [notifs EXCEPT ![id] =
                  IF Truthy(cb) THEN Append(@, "processing") ELSE @]
  /\ responses' = [responses EXCEPT ![id] = Append(@, AckResponse)]
  /\ pc' = [pc EXCEPT ![id] =
              IF Truthy(cb) THEN "processingCallback" ELSE "accessToken"]
  /\ UNCHANGED <<extractCalls, storeCalls, caught, timer>>

\* handleAsyncRequest: store the record, write the 202 acknowledgment,
\* queue processAsyncRequest with setImmediate.
AsyncAccept(id, cb) ==
  /\ mode' = [mode EXCEPT ![id] = "async"]
  /\ pendingRequests' = MapSet(pendingRequests, id, NewRecord(cb))
  /\ responses' = [responses EXCEPT ![id] = Append(@, AckResponse)]
  /\ pc' = [pc EXCEPT ![id] = "scheduled"]
  /\ UNCHANGED <<notifs, extractCalls, storeCalls, caught, timer>>

\* Variant: the synchronous path also registers the request in the map.
SyncStart_Stores(id, haveToken) ==
  /\ mode' = [mode EXCEPT ![id] = "sync"]
  /\ pendingRequests' = MapSet(pendingRequests, id, NewRecord(NoUrl))
  /\ IF ~haveToken
       THEN /\ responses' = [responses EXCEPT ![id] = Append(@, ErrorResponse("no_token", 400))]
            /\ pc' = [pc EXCEPT ![id] = "done"]
       ELSE /\ pc' = [pc EXCEPT ![id] = "syncConnection"]
            /\ UNCHANGED responses
  /\ UNCHANGED <<notifs, extractCalls, storeCalls, caught, timer>>

\* handleSyncRequest up to its first await: without an access token the
\* request is answered 400, else connector.testConnection is called.
SyncStart(id, haveToken) ==
  IF ~haveToken
    THEN /\ mode' = [mode EXCEPT ![id] = "sync"]
         /\ responses' = [responses EXCEPT ![id] = Append(@, ErrorResponse("no_token", 400))]
         /\ pc' = [pc EXCEPT ![id] = "done"]
         /\ UNCHANGED <<pendingRequests, notifs, extractCalls, storeCalls, caught, timer>>
    ELSE /\ mode' = [mode EXCEPT ![id] = "sync"]
         /\ pc' = [pc EXCEPT ![id] = "syncConnection"]
         /\ UNCHANGED <<pendingRequests, responses, notifs, extractCalls, storeCalls, caught, timer>>

\* The validation of handleConnectRequest lets the request through.
Accepts(token, hasData, cb) ==
  token = "valid" /\ hasData /\ ~(Truthy(cb) /\ ~isValidUrl(cb))

handleConnectRequest(token, hasData, cb, isAsync, haveToken) ==
  /\ nextId < MaxRequests
  /\ nextId' = nextId + 1
  /\ UNCHANGED <<settled, lastQuery, retry, callback, integrity, clock, wallet, idgen>>
  /\ LET id == generateRequestId(nextId) IN
       /\ callbackUrl' = [callbackUrl EXCEPT ![id] =
                            IF Accepts(token, hasData, cb) /\ isAsync THEN cb ELSE @]
       /\ IF token = "missing" THEN Reject(id, "missing_token", 401)
          ELSE IF token = "invalid" THEN Reject(id, "invalid_token", 401)
          ELSE IF ~hasData THEN Reject(id, "missing_data", 400)
          ELSE IF Truthy(cb) /\ ~isValidUrl(cb) THEN Reject(id, "invalid_callback", 400)
          ELSE IF isAsync THEN AsyncAccept(id, cb)
          ELSE SyncStart(id, haveToken)

\* ------------------------------------------------------- handleSyncRequest
\* testConnection settled.
SyncConnectionReturns(id, outcome) ==
  /\ pc[id] = "syncConnection"
  /\ settled' = [settled EXCEPT ![id] = outcome]
  /\ IF outcome = "ok"
       THEN /\ extractCalls' = [extractCalls EXCEPT ![id] = @ + 1]
            /\ pc' = [pc EXCEPT ![id] = "syncExtract"]
            /\ UNCHANGED responses
       ELSE /\ responses' = [responses EXCEPT ![id] = Append(@,
                 IF outcome = "fail" THEN ErrorResponse("connection_failed", 503)
                                     ELSE ErrorResponse("extraction_failed", 500))]
            /\ pc' = [pc EXCEPT ![id] = "done"]
            /\ UNCHANGED extractCalls
  /\ UNCHANGED <<lastQuery, retry, callback, integrity, clock, wallet, idgen, nextId, mode, callbackUrl, pendingRequests, notifs, storeCalls, caught, timer>>

\* getCompleteAccountData resolved: the storage call is made.
SyncExtractSucceeds(id) ==
  /\ pc[id] = "syncExtract"
  /\ settled' = [settled EXCEPT ![id] = "ok"]
  /\ storeCalls' = [storeCalls EXCEPT ![id] = @ + 1]
  /\ pc' = [pc EXCEPT ![id] = "syncStore"]
  /\ UNCHANGED <<lastQuery, retry, callback, integrity, clock, wallet, idgen, nextId, mode, callbackUrl, pendingRequests, responses, notifs, extractCalls, caught, timer>>

\* Variant: the failure is answered by the catch block of handleSyncRequest
\* and again by that of handleConnectRequest.
SyncExtractFails_RespondsTwice(id, err) ==
  /\ pc[id] = "syncExtract"
  /\ settled' = [settled EXCEPT ![id] = "raise"]
  /\ caught' = [caught EXCEPT ![id] = err]
  /\ responses' = [responses EXCEPT ![id] =
                     @ \o <<ErrorResponse("extraction_failed", 500),
                            ErrorResponse("processing_error", 500)>>]
  /\ pc' = [pc EXCEPT ![id] = "done"]
  /\ UNCHANGED <<lastQuery, retry, callback, integrity, clock, wallet, idgen, nextId, mode, callbackUrl, pendingRequests, notifs, extractCalls, storeCalls, timer>>

\* getCompleteAccountData rejected: the outer catch answers 500.
SyncExtractFails(id, err) ==
  /\ pc[id] = "syncExtract"
  /\ settled' = [settled EXCEPT ![id] = "raise"]
  /\ caught' = [caught EXCEPT ![id] = err]
  /\ responses' = [responses EXCEPT ![id] = Append(@, ErrorResponse("extraction_failed", 500))]
  /\ pc' = [pc EXCEPT ![id] = "done"]
  /\ UNCHANGED <<lastQuery, retry, callback, integrity, clock, wallet, idgen, nextId, mode, callbackUrl, pendingRequests, notifs, extractCalls, storeCalls, timer>>

\* storeCompleteData settled: the 200 response reports what it did.
SyncStoreReturns(id, outcome) ==
  /\ pc[id] = "syncStore"
  /\ settled' = [settled EXCEPT ![id] = outcome]
  /\ responses' = [responses EXCEPT ![id] =
                     Append(@, SuccessResponse(WalletResultOf(outcome) = "ok"))]
  /\ pc' = [pc EXCEPT ![id] = "done"]
  /\ UNCHANGED <<lastQuery, retry, callback, integrity, clock, wallet, idgen, nextId, mode, callbackUrl, pendingRequests, notifs, extractCalls, storeCalls, caught, timer>>

\* ----------------------------------------------------- processAsyncRequest
\* The catch block: mark the record failed and, when a callback URL was
\* given, hand the failure notification to the callback client.  No cleanup
\* timer is set on this path.
Catch(id, err) ==
  LET rec == MarkFailed(pendingRequests[id], err) IN
    /\ caught' = [caught EXCEPT ![id] = err]
    /\ pendingRequests' = MapSet(pendingRequests, id, rec)
    /\ IF HasFailureCallback(rec)
         THEN /\ notifs' = [notifs EXCEPT ![id] = Append(@, FailedPayload)]
              /\ pc' = [pc EXCEPT ![id] = "failedCallback"]
         ELSE /\ pc' = [pc EXCEPT ![id] = "done"]
              /\ UNCHANGED notifs

\* Variant: the processing notification is handed over while the record is
\* still pending.
JobStart_NotifiesFirst(id) ==
  /\ pc[id] = "scheduled"
  /\ UNCHANGED <<settled, pendingRequests>>
  /\ IF ~MapHas(pendingRequests, id)
       THEN /\ pc' = [pc EXCEPT ![id] = "done"]
            /\ UNCHANGED notifs
       ELSE IF HasProcessingCallback(pendingRequests[id])
              THEN /\ notifs' = [notifs EXCEPT ![id] = Append(@, ProcessingPayload)]
                   /\ pc' = [pc EXCEPT ![id] = "processingCallback"]
              ELSE /\ pc' = [pc EXCEPT ![id] = "accessToken"]
                   /\ UNCHANGED notifs
  /\ UNCHANGED <<lastQuery, retry, callback, integrity, clock, wallet, idgen, nextId, mode, callbackUrl, responses, extractCalls, storeCalls, caught, timer>>

\* The setImmediate callback runs; it returns at once when the map does not
\* hold the record.  Otherwise the record becomes processing and, when
\* a callback URL was given, the processing notification is handed to the
\* callback client and awaited.
JobStart(id) ==
  /\ pc[id] = "scheduled"
  /\ UNCHANGED settled
  /\ IF ~MapHas(pendingRequests, id)
       THEN /\ pc' = [pc EXCEPT ![id] = "done"]
            /\ UNCHANGED <<pendingRequests, notifs>>
       ELSE LET rec == [pendingRequests[id] EXCEPT !.status = "processing"] IN
              /\ pendingRequests' = MapSet(pendingRequests, id, rec)
              /\ IF HasProcessingCallback(rec)
                   THEN /\ notifs' = [notifs EXCEPT ![id] = Append(@, ProcessingPayload)]
                        /\ pc' = [pc EXCEPT ![id] = "processingCallback"]
                   ELSE /\ pc' = [pc EXCEPT ![id] = "accessToken"]
                        /\ UNCHANGED notifs
  /\ UNCHANGED <<lastQuery, retry, callback, integrity, clock, wallet, idgen, nextId, mode, callbackUrl, responses, extractCalls, storeCalls, caught, timer>>

\* The processing notification settled: its result is ignored, its
\* rejection is thrown into the job's catch block.
ProcessingCallbackReturns(id, outcome) ==
  /\ pc[id] = "processingCallback"
  /\ settled' = [settled EXCEPT ![id] = outcome]
  /\ IF outcome = "raise"
       THEN Catch(id, ErrCallback)
       ELSE /\ pc' = [pc EXCEPT ![id] = "accessToken"]
            /\ UNCHANGED <<pendingRequests, notifs, caught>>
  /\ UNCHANGED <<lastQuery, retry, callback, integrity, clock, wallet, idgen, nextId, mode, callbackUrl, responses, extractCalls, storeCalls, timer>>

\* The access token is read from the environment: without one the job
\* throws, else connector.testConnection is called.
CheckAccessToken(id, haveToken) ==
  /\ pc[id] = "accessToken"
  /\ UNCHANGED settled
  /\ IF ~haveToken
       THEN Catch(id, ErrNoToken)
       ELSE /\ pc' = [pc EXCEPT ![id] = "connection"]
            /\ UNCHANGED <<pendingRequests, notifs, caught>>
  /\ UNCHANGED <<lastQuery, retry, callback, integrity, clock, wallet, idgen, nextId, mode, callbackUrl, responses, extractCalls, storeCalls, timer>>

\* Variant: the result of testConnection is not looked at.
ConnectionReturns_IgnoresResult(id, outcome) ==
  /\ pc[id] = "connection"
  /\ settled' = [settled EXCEPT ![id] = outcome]
  /\ extractCalls' = [extractCalls EXCEPT ![id] = @ + 1]
  /\ pc' = [pc EXCEPT ![id] = "extract"]
  /\ UNCHANGED <<pendingRequests, notifs, caught>>
  /\ UNCHANGED <<lastQuery, retry, callback, integrity, clock, wallet, idgen, nextId, mode, callbackUrl, responses, storeCalls, timer>>

\* testConnection settled: on success connector.getCompleteAccountData is
\* called, once, directly.
ConnectionReturns(id, outcome) ==
  /\ pc[id] = "connection"
  /\ settled' = [settled EXCEPT ![id] = outcome]
  /\ IF outcome = "ok"
       THEN /\ extractCalls' = [extractCalls EXCEPT ![id] = @ + 1]
            /\ pc' = [pc EXCEPT ![id] = "extract"]
            /\ UNCHANGED <<pendingRequests, notifs, caught>>
       ELSE /\ Catch(id, IF outcome = "fail" THEN ErrConnFailed ELSE ErrConnRaised)
            /\ UNCHANGED extractCalls
  /\ UNCHANGED <<lastQuery, retry, callback, integrity, clock, wallet, idgen, nextId, mode, callbackUrl, responses, storeCalls, timer>>

\* getCompleteAccountData resolved: walletClient.storeCompleteData is called.
ExtractSucceeds(id) ==
  /\ pc[id] = "extract"
  /\ settled' = [settled EXCEPT ![id] = "ok"]
  /\ storeCalls' = [storeCalls EXCEPT ![id] = @ + 1]
  /\ pc' = [pc EXCEPT ![id] = "store"]
  /\ UNCHANGED <<lastQuery, retry, callback, integrity, clock, wallet, idgen, nextId, mode, callbackUrl, pendingRequests, responses, notifs, extractCalls, caught, timer>>

\* getCompleteAccountData rejected: the failure reaches the catch block.
ExtractFails(id, err) ==
  /\ pc[id] = "extract"
  /\ settled' = [settled EXCEPT ![id] = "raise"]
  /\ Catch(id, err)
  /\ UNCHANGED <<lastQuery, retry, callback, integrity, clock, wallet, idgen, nextId, mode, callbackUrl, responses, extractCalls, storeCalls, timer>>

\* storeCompleteData settled (a rejection is caught next to the call): the
\* record becomes completed; with a callback URL the completion
\* notification is handed over and awaited, else the cleanup timer is set.
StoreReturns(id, outcome) ==
  /\ pc[id] = "store"
  /\ settled' = [settled EXCEPT ![id] = outcome]
  /\ LET rec == MarkCompleted(pendingRequests[id], outcome) IN
       /\ pendingRequests' = MapSet(pendingRequests, id, rec)
       /\ IF HasCompletionCallback(rec)
            THEN /\ notifs' = [notifs EXCEPT ![id] = Append(@, CompletedPayload)]
                 /\ pc' = [pc EXCEPT ![id] = "completedCallback"]
                 /\ UNCHANGED timer
            ELSE /\ timer' = [timer EXCEPT ![id] = "armed"]
                 /\ pc' = [pc EXCEPT ![id] = "done"]
                 /\ UNCHANGED notifs
  /\ UNCHANGED <<lastQuery, retry, callback, integrity, clock, wallet, idgen, nextId, mode, callbackUrl, responses, extractCalls, storeCalls, caught>>

\* The completion notification settled: its result is ignored and the
\* cleanup timer is set; its rejection is thrown into the catch block.
CompletedCallbackReturns(id, outcome) ==
  /\ pc[id] = "completedCallback"
  /\ settled' = [settled EXCEPT ![id] = outcome]
  /\ IF outcome = "raise"
       THEN /\ Catch(id, ErrCallback)
            /\ UNCHANGED timer
       ELSE /\ timer' = [timer EXCEPT ![id] = "armed"]
            /\ pc' = [pc EXCEPT ![id] = "done"]
            /\ UNCHANGED <<pendingRequests, notifs, caught>>
  /\ UNCHANGED <<lastQuery, retry, callback, integrity, clock, wallet, idgen, nextId, mode, callbackUrl, responses, extractCalls, storeCalls>>

\* The failure notification settled: a rejection is caught and logged.
FailedCallbackReturns(id, outcome) ==
  /\ pc[id] = "failedCallback"
  /\ settled' = [settled EXCEPT ![id] = outcome]
  /\ pc' = [pc EXCEPT ![id] = "done"]
  /\ UNCHANGED <<lastQuery, retry, callback, integrity, clock, wallet, idgen, nextId, mode, callbackUrl, pendingRequests, responses, notifs,
                 extractCalls, storeCalls, caught, timer>>

\* The cleanup setTimeout fires after the retention delay.
Cleanup(id) ==
  /\ timer[id] = "armed"
  /\ UNCHANGED settled
  /\ timer' = [timer EXCEPT ![id] = "fired"]
  /\ pendingRequests' = MapDelete(pendingRequests, id)
  /\ UNCHANGED <<lastQuery, retry, callback, integrity, clock, wallet, idgen, nextId, mode, callbackUrl, pc, responses, notifs, extractCalls, storeCalls, caught>>

\* ------------------------------------------------------- getRequestStatus
\* A status query for any requestId, known or not, at any moment.
QueryStatus(id) ==
  /\ lastQuery' = [id |-> id, result |-> getRequestStatus(id)]
  /\ UNCHANGED <<handlerVars, retry, callback, integrity, clock, wallet, idgen>>

\* ------------------------------------------------------------ RetryHandler
\* error.retryAfter of a failure that carries none.
NoRetryAfter == -1

\* error.headers['retry-after']: absent, or the header's text.
NoHeader == "unset"

\* Number.isNaN(parseInt(text)) is modelled by NaN.
NaN == -1

\* parseInt of a Retry-After header.
parseInt(text) ==
  CASE text = "0" -> 0
    [] text = "3" -> 3
    [] OTHER -> NaN

\* What one invocation of the operation settles with: a value, or a
\* failure with its optional retryable flag, status, statusCode, retryAfter
\* (seconds) and Retry-After header.
Outcome(kind, retryable, status, statusCode, retryAfter, header) ==
  [kind |-> kind, retryable |-> retryable, status |-> status,
   statusCode |-> statusCode, retryAfter |-> retryAfter, header |-> header]

OpOk == Outcome("ok", "unset", 0, 0, NoRetryAfter, NoHeader)

NoOutcome == Outcome("none", "unset", 0, 0, NoRetryAfter, NoHeader)

OpErrors ==
  { Outcome("error", "unset", 503, 0, NoRetryAfter, NoHeader),
    Outcome("error", "unset", 400, 0, NoRetryAfter, NoHeader),
    Outcome("error", "unset", 0, 429, NoRetryAfter, NoHeader),
    Outcome("error", "unset", 0, 0, NoRetryAfter, NoHeader),
    Outcome("error", "true", 400, 0, NoRetryAfter, NoHeader),
    Outcome("error", "false", 503, 0, NoRetryAfter, NoHeader),
    Outcome("error", "unset", 503, 0, 0, NoHeader),
    Outcome("error", "unset", 503, 0, 2, NoHeader),
    Outcome("error", "unset", 503, 0, NoRetryAfter, "0"),
    Outcome("error", "unset", 503, 0, NoRetryAfter, "3"),
    Outcome("error", "unset", 503, 0, NoRetryAfter, "Wed, 21 Oct 2026 07:28:00 GMT") }

OpOutcomes == {OpOk} \cup OpErrors

\* RetryHandler constructor: customConfig.maxAttempts || config.retry.maxAttempts
\* (custom = 0 stands for an absent or zero value, both falsy).
RetryHandlerMaxAttempts(custom) == IF custom = 0 THEN maxAttempts ELSE custom

\* Math.pow for a natural exponent.
RECURSIVE Pow(_, _)
Pow(b, n) == IF n = 0 THEN 1 ELSE b * Pow(b, n - 1)

\* Math.min, Math.max
Min(a, b) == IF a <= b THEN a ELSE b
Max(a, b) == IF a >= b THEN a ELSE b

\* Variant: the backoff grows without a cap.
Backoff_Uncapped(attempt) == baseDelay * Pow(backoffMultiplier, attempt - 1)

\* calculateDelay without an explicit retry-after: exponential backoff
\* capped at maxDelay.
Backoff(attempt) == Min(baseDelay * Pow(backoffMultiplier, attempt - 1), maxDelay)

\* calculateDelay; r of 0..JitterSteps-1 stands for Math.random() = r / JitterSteps.
calculateDelay(attempt, error, r) ==
  IF error.retryAfter # NoRetryAfter /\ error.retryAfter # 0
    THEN error.retryAfter * 1000
    ELSE IF error.header # NoHeader /\ parseInt(error.header) # NaN
      THEN parseInt(error.header) * 1000
      ELSE LET delay == Backoff(attempt)
               jitter == (delay * (2 * r - JitterSteps)) \div (4 * JitterSteps)
           IN  Max(0, delay + jitter)

\* Variant: the loop stops one attempt early.
IsLastAttempt_OffByOne(attempt, max) == attempt >= max - 1

\* if (attempt === this.maxAttempts)
IsLastAttempt(attempt, max) == attempt = max

\* The state in which withRetry is entered, for a handler constructed with
\* customConfig.maxAttempts = custom and an operation whose k-th invocation
\* settles with plan[k].
RetryStart(custom, plan) ==
  [pc |-> "attempt", max |-> RetryHandlerMaxAttempts(custom), plan |-> plan,
   attempt |-> 1, calls |-> 0, sleeps |-> 0, delay |-> -1,
   lastError |-> NoOutcome, lastErrorAt |-> 0,
   thrown |-> NoOutcome, thrownAt |-> 0, returnedAt |-> 0]

\* What the k-th invocation of the operation settles with.
PlannedOutcome(k) ==
  IF k <= Len(retry.plan) THEN retry.plan[k] ELSE retry.plan[Len(retry.plan)]

RetryInit ==
  /\ HandlerInit
  /\ lastQuery = NoQuery
  /\ callback = CallbackIdle
  /\ integrity = IntegrityIdle
  /\ clock = ClockZero
  /\ wallet = WalletIdle
  /\ idgen = IdgenIdle
  /\ retry \in { RetryStart(custom, plan) :
                   custom \in 0..MaxOps, plan \in [1..MaxOps -> OpOutcomes] }

\* Loop head and operation(): the operation is invoked while
\* attempt <= maxAttempts; past the loop lastError is thrown.
withRetryInvoke ==
  /\ retry.pc = "attempt"
  /\ IF retry.attempt <= retry.max
       THEN retry' = [retry EXCEPT !.pc = "await", !.calls = @ + 1]
       ELSE retry' = [retry EXCEPT !.pc = "thrown", !.thrown = retry.lastError,
                                   !.thrownAt = retry.lastErrorAt]
  /\ UNCHANGED <<handlerVars, lastQuery, callback, integrity, clock, wallet, idgen>>

\* Variant: the value of a successful attempt is not returned and the loop
\* goes on.
withRetryResolves_Continues ==
  /\ retry.pc = "await"
  /\ PlannedOutcome(retry.calls).kind = "ok"
  /\ retry' = [retry EXCEPT !.pc = "attempt", !.attempt = @ + 1,
                             !.returnedAt = retry.calls]
  /\ UNCHANGED <<handlerVars, lastQuery, callback, integrity, clock, wallet, idgen>>

\* return await operation(): the operation resolved.
withRetryResolves ==
  /\ retry.pc = "await"
  /\ PlannedOutcome(retry.calls).kind = "ok"
  /\ retry' = [retry EXCEPT !.pc = "returned", !.returnedAt = retry.calls]
  /\ UNCHANGED <<handlerVars, lastQuery, callback, integrity, clock, wallet, idgen>>

\* Variant: the failure is not classified; only the last attempt's failure
\* is thrown.
withRetryRejects_Unclassified(r) ==
  /\ retry.pc = "await"
  /\ PlannedOutcome(retry.calls).kind = "error"
  /\ LET error == PlannedOutcome(retry.calls) IN
       IF IsLastAttempt(retry.attempt, retry.max)
         THEN retry' = [retry EXCEPT !.pc = "thrown",
                                     !.lastError = error, !.lastErrorAt = retry.calls,
                                     !.thrown = error, !.thrownAt = retry.calls]
         ELSE retry' = [retry EXCEPT !.pc = "sleep",
                                     !.lastError = error, !.lastErrorAt = retry.calls,
                                     !.sleeps = @ + 1,
                                     !.delay = calculateDelay(retry.attempt, error, r)]
  /\ UNCHANGED <<handlerVars, lastQuery, callback, integrity, clock, wallet, idgen>>

\* The catch block: a failure that is not retryable is thrown at once, the
\* failure of the last attempt is thrown after the loop, any other is
\* followed by a sleep of calculateDelay milliseconds.
withRetryRejects(r) ==
  /\ retry.pc = "await"
  /\ PlannedOutcome(retry.calls).kind = "error"
  /\ LET error == PlannedOutcome(retry.calls) IN
       IF ~isRetryable(error) \/ IsLastAttempt(retry.attempt, retry.max)
         THEN retry' = [retry EXCEPT !.pc = "thrown",
                                     !.lastError = error, !.lastErrorAt = retry.calls,
                                     !.thrown = error, !.thrownAt = retry.calls]
         ELSE retry' = [retry EXCEPT !.pc = "sleep",
                                     !.lastError = error, !.lastErrorAt = retry.calls,
                                     !.sleeps = @ + 1,
                                     !.delay = calculateDelay(retry.attempt, error, r)]
  /\ UNCHANGED <<handlerVars, lastQuery, callback, integrity, clock, wallet, idgen>>

\* The sleep's timer fires: next iteration of the loop.
withRetryWakes ==
  /\ retry.pc = "sleep"
  /\ retry' = [retry EXCEPT !.pc = "attempt", !.attempt = @ + 1]
  /\ UNCHANGED <<handlerVars, lastQuery, callback, integrity, clock, wallet, idgen>>

\* calculateDelay(attempt, error) about to be called, for any attempt, any
\* failure and any value r / JitterSteps of Math.random().
DelayInit ==
  /\ HandlerInit
  /\ lastQuery = NoQuery
  /\ callback = CallbackIdle
  /\ integrity = IntegrityIdle
  /\ clock = ClockZero
  /\ wallet = WalletIdle
  /\ idgen = IdgenIdle
  /\ retry \in { [pc |-> "calculateDelay", attempt |-> attempt, error |-> error,
                  random |-> r, delay |-> -1] :
                   attempt \in 1..MaxAttempt, error \in OpErrors,
                   r \in 0..(JitterSteps - 1) }

\* calculateDelay returns.
CalculateDelay ==
  /\ retry.pc = "calculateDelay"
  /\ retry' = [retry EXCEPT
       !.pc = "calculated",
       !.delay = calculateDelay(retry.attempt, retry.error, retry.random)]
  /\ UNCHANGED <<handlerVars, lastQuery, callback, integrity, clock, wallet, idgen>>

DelaySpec == DelayInit /\ [][CalculateDelay]_vars

RetryNext ==
  \/ withRetryInvoke
  \/ withRetryResolves
  \/ \E r \in 0..(JitterSteps - 1) : withRetryRejects(r)
  \/ withRetryWakes

RetrySpec == RetryInit /\ [][RetryNext]_vars

\* ------------------------------------------------------------ CallbackClient
\* The url argument of sendCallback: absent, empty, or a URL string.
LoopbackUrl == "http://127.0.0.1/x"
PrivateUrl == "http://10.0.0.5/x"
LinkLocalUrl == "http://169.254.1.1/x"
FtpUrl == "ftp://example.com/x"
SendCallbackUrls == {NoUrl, EmptyUrl, LoopbackUrl, PrivateUrl, LinkLocalUrl, FtpUrl, GoodUrl}

\* What httpClient.post settles with: a response (validateStatus lets every
\* status below 500 resolve) or an error, with error.response.status where
\* the error carries a response (0 where it carries none).
Post(settle, status) == [settle |-> settle, status |-> status]

PostOutcomes ==
  { Post("resolve", 200), Post("resolve", 204),
    Post("resolve", 404), Post("resolve", 429),
    Post("reject", 404), Post("reject", 503), Post("reject", 0) }

\* error.message of the failures sendWithRetry handles.
Message(text, status) == [text |-> text, status |-> status]

NoMessage == Message("none", 0)

\* `HTTP ${response.status}: ...` thrown for a resolved response that is
\* not 2xx; the message of the error httpClient.post rejected with.
MessageOf(post) ==
  IF post.settle = "resolve" THEN Message("HTTP", post.status)
  ELSE IF post.status # 0 THEN Message("Request failed with status code", post.status)
  ELSE Message("Network Error", 0)

\* `All ${maxRetries} callback attempts failed. Last error: ${lastError.message}`
AllAttemptsFailed(n, lastError) == [all |-> n, last |-> lastError]

\* CallbackClient constructor: options.maxRetries || 3
CallbackClientMaxRetries(option) == IF option = 0 THEN maxRetries ELSE option

\* callbackId of generateCallbackId
CallbackId == "cb"

\* The results sendCallback returns.
NoResult == [pending |-> TRUE]

NoUrlResult ==
  [success |-> FALSE, error |-> Message("No callback URL provided", 0)]

SuccessResult(statusCode, duration, attempt) ==
  [success |-> TRUE, callbackId |-> CallbackId, statusCode |-> statusCode,
   duration |-> duration, attempts |-> attempt]

FailureResult(error, duration) ==
  [success |-> FALSE, callbackId |-> CallbackId, error |-> error,
   duration |-> duration]

\* The state in which sendCallback(url, payload) is entered, for a client
\* constructed with options.maxRetries = option and an http client whose
\* k-th post settles with plan[k].
CallbackStart(url, option, plan) ==
  [pc |-> "called", url |-> url, maxRetries |-> CallbackClientMaxRetries(option),
   plan |-> plan, attempt |-> 0, posts |-> 0, sleeps |-> 0, delay |-> 0,
   elapsed |-> 0, lastError |-> NoMessage, result |-> NoResult]

\* What the k-th call of httpClient.post settles with.
PlannedPost(k) ==
  IF k <= Len(callback.plan) THEN callback.plan[k]
  ELSE callback.plan[Len(callback.plan)]

CallbackInit ==
  /\ HandlerInit
  /\ lastQuery = NoQuery
  /\ retry = RetryIdle
  /\ integrity = IntegrityIdle
  /\ clock = ClockZero
  /\ wallet = WalletIdle
  /\ idgen = IdgenIdle
  /\ callback \in { CallbackStart(url, option, plan) :
                      url \in SendCallbackUrls, option \in 0..MaxPosts,
                      plan \in [1..MaxPosts -> PostOutcomes] }

\* Variant: sendCallback has no catch block; what sendWithRetry throws
\* reaches the caller.
sendCallbackCatch_Propagates(error) ==
  [callback EXCEPT !.pc = "raised", !.lastError = error]

\* The catch block of sendCallback: what sendWithRetry throws becomes a
\* failure result.
sendCallbackCatch(error) ==
  [callback EXCEPT !.pc = "returned",
                   !.result = FailureResult(error, callback.elapsed)]

\* if (!url)
UrlMissing(url) == ~Truthy(url)

\* sendCallback up to its first await: without a url it returns at once,
\* otherwise sendWithRetry enters its loop.
sendCallback ==
  /\ callback.pc = "called"
  /\ IF UrlMissing(callback.url)
       THEN callback' = [callback EXCEPT !.pc = "returned", !.result = NoUrlResult]
       ELSE callback' = [callback EXCEPT !.pc = "post", !.attempt = 1]
  /\ UNCHANGED <<handlerVars, lastQuery, retry, integrity, clock, wallet, idgen>>

\* sendWithRetry: this.httpClient.post(url, payload)
sendWithRetryPosts ==
  /\ callback.pc = "post"
  /\ callback' = [callback EXCEPT !.pc = "await", !.posts = @ + 1]
  /\ UNCHANGED <<handlerVars, lastQuery, retry, integrity, clock, wallet, idgen>>

\* attempt: result.attempt
AttemptsReported == callback.attempt

\* The post resolved with a 2xx response: sendWithRetry returns and
\* sendCallback returns the success result.
sendWithRetrySucceeds ==
  /\ callback.pc = "await"
  /\ LET post == PlannedPost(callback.posts) IN
       /\ post.settle = "resolve"
       /\ post.status >= 200 /\ post.status < 300
       /\ callback' = [callback EXCEPT
            !.pc = "returned",
            !.result = SuccessResult(post.status, callback.elapsed, AttemptsReported)]
  /\ UNCHANGED <<handlerVars, lastQuery, retry, integrity, clock, wallet, idgen>>

\* The post rejected with an error whose response has a 4xx status: the
\* catch block of sendWithRetry throws it again.
sendWithRetryClientError ==
  /\ callback.pc = "await"
  /\ LET post == PlannedPost(callback.posts) IN
       /\ post.settle = "reject"
       /\ post.status >= 400 /\ post.status < 500
       /\ callback' = sendCallbackCatch(MessageOf(post))
  /\ UNCHANGED <<handlerVars, lastQuery, retry, integrity, clock, wallet, idgen>>

\* Variant: the loop makes one attempt more than maxRetries.
MoreAttempts_OneMore == callback.attempt <= callback.maxRetries

\* if (attempt < this.maxRetries)
MoreAttempts == callback.attempt < callback.maxRetries

\* Every other settlement (a resolved response that is not 2xx, whose error
\* is thrown inside the try block without a response; an error without a
\* response; an error whose response is not 4xx): the catch block of
\* sendWithRetry sleeps retryDelay * 2^(attempt-1) if attempts remain,
\* otherwise the loop ends and the error naming the last failure is thrown.
sendWithRetryFails ==
  /\ callback.pc = "await"
  /\ LET post == PlannedPost(callback.posts)
         error == MessageOf(post)
     IN
       /\ \/ post.settle = "resolve" /\ ~(post.status >= 200 /\ post.status < 300)
          \/ post.settle = "reject" /\ ~(post.status >= 400 /\ post.status < 500)
       /\ IF MoreAttempts
            THEN callback' = [callback EXCEPT
                   !.pc = "sleep", !.lastError = error, !.sleeps = @ + 1,
                   !.delay = retryDelay * Pow(2, callback.attempt - 1)]
            ELSE callback' =
                   [sendCallbackCatch(AllAttemptsFailed(callback.maxRetries, error))
                      EXCEPT !.lastError = error]
  /\ UNCHANGED <<handlerVars, lastQuery, retry, integrity, clock, wallet, idgen>>

\* The sleep's timer fires: next iteration of the loop.
sendWithRetryWakes ==
  /\ callback.pc = "sleep"
  /\ callback' = [callback EXCEPT !.pc = "post", !.attempt = @ + 1,
                                  !.elapsed = @ + callback.delay]
  /\ UNCHANGED <<handlerVars, lastQuery, retry, integrity, clock, wallet, idgen>>

CallbackNext ==
  \/ sendCallback
  \/ sendWithRetryPosts
  \/ sendWithRetrySucceeds
  \/ sendWithRetryClientError
  \/ sendWithRetryFails
  \/ sendWithRetryWakes

CallbackSpec == CallbackInit /\ [][CallbackNext]_vars

\* ------------------------------------------------------------ Integrity
\* JavaScript values, each a pair of its type and its content. A string's
\* content is the sequence of its characters; an object's is the sequence of
\* its <<key, value>> pairs in insertion order.
Str(chars) == <<"string", chars>>
Num(n) == <<"number", n>>
Null == <<"null", 0>>
Undefined == <<"undefined", 0>>
Arr(items) == <<"array", items>>
Obj(pairs) == <<"object", pairs>>

\* The keys used by the payloads, in the order of Array.prototype.sort
\* (UTF-16 code units).
KeyOrder ==
  <<"a", "accountCount", "accounts", "b", "balanceCount", "balances", "c",
    "connectionTest", "connector", "extractedAt", "extractionMeta",
    "transactionCount", "transactions">>

\* Object.keys(obj)
ObjectKeys(pairs) == [i \in 1..Len(pairs) |-> pairs[i][1]]

\* obj[key]
Lookup(pairs, key) ==
  IF \E i \in 1..Len(pairs) : pairs[i][1] = key
    THEN pairs[CHOOSE i \in 1..Len(pairs) : pairs[i][1] = key][2]
    ELSE Undefined

\* Variant: the keys are taken in insertion order.
SortedKeys_Unsorted(pairs) == ObjectKeys(pairs)

\* Object.keys(obj).sort()
SortedKeys(pairs) ==
  SelectSeq(KeyOrder, LAMBDA k : \E i \in 1..Len(pairs) : pairs[i][1] = k)

\* What JSON.stringify returns for undefined: no string at all.
NoString == <<"#undefined">>

\* String concatenation with a value that may be undefined.
AsText(string) == IF string = NoString THEN <<"u", "n", "d", "e", "f", "i", "n", "e", "d">> ELSE string

\* Array.prototype.join(','): undefined elements contribute nothing.
RECURSIVE Join(_)
Join(strings) ==
  IF strings = <<>> THEN <<>>
  ELSE LET head == IF Head(strings) = NoString THEN <<>> ELSE Head(strings)
       IN  IF Len(strings) = 1 THEN head
           ELSE head \o <<",">> \o Join(Tail(strings))

\* JSON.stringify of a string: quoted, with quotes and backslashes escaped.
RECURSIVE Escape(_)
Escape(chars) ==
  IF chars = <<>> THEN <<>>
  ELSE (IF Head(chars) \in {"\"", "\\"} THEN <<"\\", Head(chars)>> ELSE <<Head(chars)>>)
       \o Escape(Tail(chars))

Quote(chars) == <<"\"">> \o Escape(chars) \o <<"\"">>

\* Integrity._stringifyDeterministic
RECURSIVE _stringifyDeterministic(_)
_stringifyDeterministic(obj) ==
  CASE obj[1] = "undefined" -> NoString
    [] obj[1] = "null" -> <<"n", "u", "l", "l">>
    [] obj[1] = "number" -> <<ToString(obj[2])>>
    [] obj[1] = "string" -> Quote(obj[2])
    [] obj[1] = "array" ->
         <<"[">> \o Join([i \in 1..Len(obj[2]) |-> _stringifyDeterministic(obj[2][i])])
                 \o <<"]">>
    [] obj[1] = "object" ->
         LET sortedKeys == SortedKeys(obj[2])
             pairs == [i \in 1..Len(sortedKeys) |->
                         Quote(<<sortedKeys[i]>>) \o <<":">>
                           \o AsText(_stringifyDeterministic(Lookup(obj[2], sortedKeys[i])))]
         IN  <<"{">> \o Join(pairs) \o <<"}">>

\* crypto.createHash('sha256').update(dataString).digest('hex'); SHA-256 is
\* taken to be free of collisions, the digest stands for the string hashed.
Digest(dataString) == <<"digest", dataString>>

\* compute_checksum throws: hash.update was handed no string.
ChecksumThrown == <<"thrown", <<>>>>

\* No checksum at hand.
NoChecksum == <<"none", <<>>>>

\* Integrity.compute_checksum
compute_checksum(data) ==
  LET dataString == IF data[1] = "string" THEN data[2]
                    ELSE _stringifyDeterministic(data)
  IN  IF dataString = NoString THEN ChecksumThrown ELSE Digest(dataString)

\* Variant: the expected checksum is not compared.
verify_checksum_Accepts(data, expectedChecksum) ==
  compute_checksum(data) # ChecksumThrown

\* Integrity.verify_checksum
verify_checksum(data, expectedChecksum) ==
  LET computedChecksum == compute_checksum(data)
  IN  IF computedChecksum = ChecksumThrown THEN FALSE
      ELSE computedChecksum = expectedChecksum

\* --- payloads
\* All sequences of <<key, value>> pairs with distinct keys of K and values of V.
PairSeqs(K, V) ==
  UNION { { pairs \in [1..n -> K \X V] :
              \A i, j \in 1..n : pairs[i][1] = pairs[j][1] => i = j } :
          n \in 0..Cardinality(K) }

\* All sequences over V of length at most n.
SeqsUpTo(V, n) == UNION { [1..k -> V] : k \in 0..n }

Leaves == {Num(1), Str(<<"a">>)}

KeyNames == <<"a", "b", "c">>

NestedKeys == { KeyNames[i] : i \in 1..MaxKeys }

NestedObjects == { Obj(pairs) : pairs \in PairSeqs(NestedKeys, Leaves) }

NestedArrays == { Arr(items) : items \in SeqsUpTo(Leaves, MaxItems) }

Nested == Leaves \cup NestedObjects \cup NestedArrays

\* Mappings of the keys a and b, and arrays of one or two items, holding
\* leaves, mappings and arrays; mappings inside an array inside a mapping.
Payloads ==
  Nested
  \cup { Obj(pairs) : pairs \in PairSeqs({"a", "b"}, Nested) }
  \cup { Arr(<<v>>) : v \in Nested }
  \cup { Arr(<<v, w>>) : v \in NestedObjects, w \in Nested }
  \cup { Obj(<< <<"a", Arr(<<v>>)>> >>) : v \in NestedObjects }

\* The same value with the keys of its mappings inserted in any order, at
\* every depth.
RECURSIVE Reorderings(_)
RECURSIVE ItemReorderings(_)
ItemReorderings(items) ==
  IF items = <<>> THEN {<<>>}
  ELSE { <<h>> \o t : h \in Reorderings(Head(items)), t \in ItemReorderings(Tail(items)) }

RECURSIVE PairReorderings(_)
PairReorderings(pairs) ==
  IF pairs = <<>> THEN {<<>>}
  ELSE { << <<Head(pairs)[1], h>> >> \o t :
           h \in Reorderings(Head(pairs)[2]), t \in PairReorderings(Tail(pairs)) }

Permuted(pairs) ==
  { [i \in 1..Len(pairs) |-> pairs[f[i]]] :
      f \in { g \in [1..Len(pairs) -> 1..Len(pairs)] :
                \A i, j \in 1..Len(pairs) : g[i] = g[j] => i = j } }

Reorderings(value) ==
  CASE value[1] = "array" -> { Arr(items) : items \in ItemReorderings(value[2]) }
    [] value[1] = "object" ->
         UNION { { Obj(q) : q \in Permuted(p) } : p \in PairReorderings(value[2]) }
    [] OTHER -> {value}

\* --- WalletClient.prepareWalletData
\* new Date().toISOString()
Timestamp == Str(<<"t">>)

\* a || b
OrElse(a, b) ==
  IF a \in {Undefined, Null, Num(0), Str(<<>>)} THEN b ELSE a

\* a?.length || 0
LengthOrZero(a) ==
  IF a[1] \in {"array", "string"} THEN Num(Len(a[2])) ELSE Num(0)

\* WalletClient.prepareWalletData
prepareWalletData(rawData, namespace, recordName) ==
  Obj(<<
    <<"source", Obj(<< <<"name", Str(<<"monzo-data-connector">>)>>,
                       <<"version", Str(<<"1.0.0">>)>>,
                       <<"provider", Str(<<"monzo">>)>>,
                       <<"extractionTime", Timestamp>> >>)>>,
    <<"metadata", Obj(<< <<"recordName", recordName>>,
                         <<"namespace", namespace>>,
                         <<"contentType", Str(<<"application/json">>)>>,
                         <<"dataType", Str(<<"banking-data">>)>>,
                         <<"schema", Str(<<"raw-monzo-api-response">>)>>,
                         <<"created", Timestamp>>,
                         <<"updated", Timestamp>> >>)>>,
    <<"data", Obj(<<
       <<"accounts", OrElse(Lookup(rawData[2], "accounts"), Arr(<<>>))>>,
       <<"balances", OrElse(Lookup(rawData[2], "balances"), Arr(<<>>))>>,
       <<"transactions", OrElse(Lookup(rawData[2], "transactions"), Arr(<<>>))>>,
       <<"connectionTest", OrElse(Lookup(rawData[2], "connectionTest"), Null)>>,
       <<"extractionMeta", Obj(<<
          <<"accountCount", LengthOrZero(Lookup(rawData[2], "accounts"))>>,
          <<"balanceCount", LengthOrZero(Lookup(rawData[2], "balances"))>>,
          <<"transactionCount", LengthOrZero(Lookup(rawData[2], "transactions"))>>,
          <<"extractedAt", Timestamp>>,
          <<"connector", Str(<<"monzo-data-connector">>)>> >>)>> >>)>> >>)

\* The rawData handed to prepareWalletData.
RawData ==
  { Obj(pairs) : pairs \in PairSeqs({"accounts", "balances", "transactions"},
                                    {Arr(<<>>), Arr(<<Obj(<< <<"a", Num(1)>> >>)>>)}) }

\* --- one use of the checksum functions
\* The state in which compute_checksum(data) is about to be called.
IntegrityStart(data) ==
  [pc |-> "ready", data |-> data, checksum |-> NoChecksum, previous |-> NoChecksum,
   expected |-> NoChecksum, verified |-> "unset", envelope |-> Undefined]

\* The state in which prepareWalletData(rawData, ...) is about to be called.
EnvelopeStart(rawData) ==
  [pc |-> "raw", data |-> rawData, checksum |-> NoChecksum, previous |-> NoChecksum,
   expected |-> NoChecksum, verified |-> "unset", envelope |-> Undefined]

IntegrityInit ==
  /\ HandlerInit
  /\ lastQuery = NoQuery
  /\ retry = RetryIdle
  /\ callback = CallbackIdle
  /\ clock = ClockZero
  /\ wallet = WalletIdle
  /\ idgen = IdgenIdle
  /\ integrity \in { IntegrityStart(data) : data \in Payloads }
                   \cup { EnvelopeStart(rawData) : rawData \in RawData }

\* compute_checksum(data) is called.
ComputeChecksum ==
  /\ integrity.pc = "ready"
  /\ integrity' = [integrity EXCEPT !.pc = "computed",
                                    !.checksum = compute_checksum(integrity.data)]
  /\ UNCHANGED <<handlerVars, lastQuery, retry, callback, clock, wallet, idgen>>

\* The caller builds the same payload again with its keys inserted in
\* another order and is about to call compute_checksum on it.
Reinsert ==
  /\ integrity.pc = "computed"
  /\ integrity.previous = NoChecksum
  /\ \E data \in Reorderings(integrity.data) \ {integrity.data} :
       integrity' = [integrity EXCEPT !.pc = "ready", !.data = data,
                                      !.previous = integrity.checksum,
                                      !.checksum = NoChecksum]
  /\ UNCHANGED <<handlerVars, lastQuery, retry, callback, clock, wallet, idgen>>

\* The checksums handed to verify_checksum: the one computed, another
\* payload's, a checksum that was never computed.
ExpectedChecksums ==
  {integrity.checksum, compute_checksum(Num(1)), compute_checksum(Str(<<"a">>)),
   Undefined}

\* verify_checksum(data, expectedChecksum) is called.
VerifyChecksum ==
  /\ integrity.pc = "computed"
  /\ \E expectedChecksum \in ExpectedChecksums :
       integrity' = [integrity EXCEPT
         !.pc = "verified", !.expected = expectedChecksum,
         !.verified = IF verify_checksum(integrity.data, expectedChecksum)
                        THEN "true" ELSE "false"]
  /\ UNCHANGED <<handlerVars, lastQuery, retry, callback, clock, wallet, idgen>>

\* prepareWalletData(rawData, namespace, recordName) is called.
PrepareWalletData ==
  /\ integrity.pc = "raw"
  /\ integrity' = [integrity EXCEPT
       !.pc = "prepared",
       !.envelope = prepareWalletData(integrity.data, Str(<<"monzo">>), Str(<<"r">>))]
  /\ UNCHANGED <<handlerVars, lastQuery, retry, callback, clock, wallet, idgen>>

\* verify_checksum(envelope.data, envelope.metadata.checksum) is called.
VerifyEnvelope ==
  /\ integrity.pc = "prepared"
  /\ LET data == Lookup(integrity.envelope[2], "data")
         metadata == Lookup(integrity.envelope[2], "metadata")
         checksum == Lookup(metadata[2], "checksum")
     IN  integrity' = [integrity EXCEPT
           !.pc = "envelope verified", !.expected = checksum,
           !.checksum = compute_checksum(data),
           !.verified = IF verify_checksum(data, checksum) THEN "true" ELSE "false"]
  /\ UNCHANGED <<handlerVars, lastQuery, retry, callback, clock, wallet, idgen>>

IntegrityNext ==
  \/ ComputeChecksum
  \/ Reinsert
  \/ VerifyChecksum
  \/ PrepareWalletData
  \/ VerifyEnvelope

IntegritySpec == IntegrityInit /\ [][IntegrityNext]_vars

\* --- two payloads of different shape
\* Payloads of every type: the empty mapping and array, an array of one
\* absent value and of one null, a number, a mapping, and strings, among
\* them the texts "{}", "1" and "null".
ShapePayloads ==
  { Obj(<<>>), Obj(<< <<"a", Num(1)>> >>), Obj(<< <<"a", Undefined>> >>),
    Arr(<<>>), Arr(<<Undefined>>), Arr(<<Null>>), Arr(<<Num(1)>>),
    Num(1), Null,
    Str(<<"a">>), Str(<<"{", "}">>), Str(<<"1">>), Str(<<"n", "u", "l", "l">>) }

\* compute_checksum is about to be called on data and then on other, two
\* different payloads.
ShapeInit ==
  /\ HandlerInit
  /\ lastQuery = NoQuery
  /\ retry = RetryIdle
  /\ callback = CallbackIdle
  /\ clock = ClockZero
  /\ wallet = WalletIdle
  /\ idgen = IdgenIdle
  /\ integrity \in { [pc |-> "first", data |-> data, other |-> other,
                      checksum |-> NoChecksum, otherChecksum |-> NoChecksum] :
                       data \in ShapePayloads, other \in ShapePayloads }
  /\ integrity.data # integrity.other

\* compute_checksum(data)
ComputeFirstChecksum ==
  /\ integrity.pc = "first"
  /\ integrity' = [integrity EXCEPT !.pc = "second",
                                    !.checksum = compute_checksum(integrity.data)]
  /\ UNCHANGED <<handlerVars, lastQuery, retry, callback, clock, wallet, idgen>>

\* compute_checksum(other)
ComputeOtherChecksum ==
  /\ integrity.pc = "second"
  /\ integrity' = [integrity EXCEPT !.pc = "both",
                                    !.otherChecksum = compute_checksum(integrity.other)]
  /\ UNCHANGED <<handlerVars, lastQuery, retry, callback, clock, wallet, idgen>>

ShapeNext ==
  \/ ComputeFirstChecksum
  \/ ComputeOtherChecksum

ShapeSpec == ShapeInit /\ [][ShapeNext]_vars

\* ------------------------------------------------------------ WalletClient.storeData
\* error.response?.data?.cause?.includes('Duplicate data') ||
\* error.response?.data?.message?.includes('Duplicate data'), for a cause and
\* a message that are absent, a text holding 'Duplicate data' or another
\* text; a JavaScript value: true, false or undefined.
isDuplicateData(cause, message) ==
  LET includes(text) == CASE text = "absent" -> "undefined"
                           [] text = "Duplicate data" -> "true"
                           [] OTHER -> "false"
  IN  IF includes(cause) = "true" THEN "true" ELSE includes(message)

\* What this.httpClient.post settles with: a response, an error without a
\* response, or an error whose response body has a cause and a message.
WriteOutcomes ==
  { [settle |-> "resolve", response |-> TRUE, cause |-> "absent", message |-> "absent"],
    [settle |-> "reject", response |-> FALSE, cause |-> "absent", message |-> "absent"] }
  \cup { [settle |-> "reject", response |-> TRUE, cause |-> cause, message |-> message] :
           cause \in {"absent", "Duplicate data", "other"},
           message \in {"absent", "Duplicate data", "other"} }

\* The results storeData returns.
StoredResult(namespace) ==
  [success |-> "true", namespace |-> namespace, recordId |-> "id", error |-> "absent",
   isDuplicate |-> "absent"]

StoreFailedResult(namespace, error, isDuplicate) ==
  [success |-> isDuplicate, namespace |-> namespace, recordId |-> "absent",
   error |-> error, isDuplicate |-> isDuplicate]

\* The state in which storeData('monzo', dataPath, data, {isTest}) is
\* entered: with or without a cached application token, with or without
\* data; tokenOutcome is what getApplicationToken will settle with.
WalletStart(isTest, hasToken, hasData, tokenOutcome, writeOutcome) ==
  [pc |-> "called", finalNamespace |-> IF isTest THEN "test/monzo" ELSE "monzo",
   applicationToken |-> hasToken, hasData |-> hasData,
   tokenOutcome |-> tokenOutcome, writeOutcome |-> writeOutcome,
   tokenCalls |-> 0, posts |-> 0,
   result |-> [success |-> "pending", namespace |-> "absent", recordId |-> "absent",
               error |-> "absent", isDuplicate |-> "absent"]]

WalletInit ==
  /\ HandlerInit
  /\ lastQuery = NoQuery
  /\ retry = RetryIdle
  /\ callback = CallbackIdle
  /\ integrity = IntegrityIdle
  /\ clock = ClockZero
  /\ idgen = IdgenIdle
  /\ wallet \in { WalletStart(isTest, hasToken, hasData, tokenOutcome, writeOutcome) :
                    isTest \in BOOLEAN, hasToken \in BOOLEAN, hasData \in BOOLEAN,
                    tokenOutcome \in {"ok", "fail"}, writeOutcome \in WriteOutcomes }

\* The catch block of storeData: the failure becomes a result whose success
\* and isDuplicate are isDuplicateData.
storeDataCatch(w, error, cause, message) ==
  [w EXCEPT !.pc = "returned",
            !.result = StoreFailedResult(w.finalNamespace, error, isDuplicateData(cause, message))]

\* storeData once an application token is there: data.accounts throws for
\* absent data, else the write is posted.
storeDataPosts(w) ==
  IF w.hasData
    THEN [w EXCEPT !.pc = "post", !.posts = @ + 1]
    ELSE storeDataCatch(w, "Cannot read properties of undefined", "absent", "absent")

\* storeData up to its first await: getApplicationToken if no token is
\* cached, else the write.
storeData ==
  /\ wallet.pc = "called"
  /\ IF wallet.applicationToken
       THEN wallet' = storeDataPosts(wallet)
       ELSE wallet' = [wallet EXCEPT !.pc = "token", !.tokenCalls = @ + 1]
  /\ UNCHANGED <<handlerVars, lastQuery, retry, callback, integrity, clock, idgen>>

\* getApplicationToken settled: with a token, or with the error
\* 'Failed to get application token: ...'.
ApplicationTokenReturns ==
  /\ wallet.pc = "token"
  /\ IF wallet.tokenOutcome = "ok"
       THEN wallet' = storeDataPosts([wallet EXCEPT !.applicationToken = TRUE])
       ELSE wallet' = storeDataCatch(wallet, "Failed to get application token",
                                     "absent", "absent")
  /\ UNCHANGED <<handlerVars, lastQuery, retry, callback, integrity, clock, idgen>>

\* The write settled.
WriteReturns ==
  /\ wallet.pc = "post"
  /\ LET w == wallet.writeOutcome IN
       IF w.settle = "resolve"
         THEN wallet' = [wallet EXCEPT !.pc = "returned",
                                       !.result = StoredResult(wallet.finalNamespace)]
         ELSE wallet' = storeDataCatch(wallet, "Request failed", w.cause, w.message)
  /\ UNCHANGED <<handlerVars, lastQuery, retry, callback, integrity, clock, idgen>>

WalletNext ==
  \/ storeData
  \/ ApplicationTokenReturns
  \/ WriteReturns

WalletSpec == WalletInit /\ [][WalletNext]_vars

\* ------------------------------------------------------------ request ids
\* Math.random() as the digits of its base-36 fraction: 0 has none, 0.5 is
\* "i"; two draws may be equal.
RandomFractions == { <<>>, <<"i">>, <<"i", "z">> }

\* generateRequestId at the time now with the draw fraction:
\* `monzo_${Date.now()}_${Math.random().toString(36).substr(2, 9)}`.
generateRequestIdAt(now, fraction) ==
  <<"monzo", now, SubSeq(fraction, 1, Min(9, Len(fraction)))>>

\* A handler that has accepted nothing yet: generated lists the ids in the
\* order of acceptance, pendingRequests maps an id to the number of the
\* request whose record it holds, overwritten holds the requests whose
\* record was replaced while stored.
IdgenStart ==
  [pc |-> "serving", now |-> 0, generated |-> <<>>,
   pendingRequests |-> <<>>, overwritten |-> {}]

IdInit ==
  /\ HandlerInit
  /\ lastQuery = NoQuery
  /\ retry = RetryIdle
  /\ callback = CallbackIdle
  /\ integrity = IntegrityIdle
  /\ clock = ClockZero
  /\ wallet = WalletIdle
  /\ idgen = IdgenStart

\* Date.now() moves on by a millisecond.
MillisecondPasses ==
  /\ idgen.pc = "serving"
  /\ idgen.now < MaxNow
  /\ idgen' = [idgen EXCEPT !.now = @ + 1]
  /\ UNCHANGED <<handlerVars, lastQuery, retry, callback, integrity, clock, wallet>>

\* An asynchronous request is accepted: handleConnectRequest generates the
\* id and handleAsyncRequest does pendingRequests.set(requestId, record).
AcceptAsyncRequest(fraction) ==
  /\ idgen.pc = "serving"
  /\ Len(idgen.generated) < MaxAccepts
  /\ LET requestId == generateRequestIdAt(idgen.now, fraction)
         n == Len(idgen.generated) + 1
     IN  idgen' = [idgen EXCEPT
           !.generated = Append(@, requestId),
           !.pendingRequests = MapSet(@, requestId, n),
           !.overwritten = IF MapHas(idgen.pendingRequests, requestId)
                             THEN @ \cup {idgen.pendingRequests[requestId]}
                             ELSE @]
  /\ UNCHANGED <<handlerVars, lastQuery, retry, callback, integrity, clock, wallet>>

\* The cleanup timer of a finished request deletes its record.
RecordEvicted(requestId) ==
  /\ idgen.pc = "serving"
  /\ MapHas(idgen.pendingRequests, requestId)
  /\ idgen' = [idgen EXCEPT !.pendingRequests = MapDelete(@, requestId)]
  /\ UNCHANGED <<handlerVars, lastQuery, retry, callback, integrity, clock, wallet>>

IdNext ==
  \/ MillisecondPasses
  \/ \E fraction \in RandomFractions : AcceptAsyncRequest(fraction)
  \/ \E requestId \in DOMAIN idgen.pendingRequests : RecordEvicted(requestId)

IdSpec == IdInit /\ [][IdNext]_vars

\* ------------------------------------------------------- retention
\* The delay of the cleanup setTimeout, 5 * 60 * 1000 ms, in minutes.
CleanupDelay == 5

\* A minute passes: for every request, the time since its stored record
\* reached a terminal status and the time since its cleanup timer was set
\* grow (counted up to the retention delay).
MinutePasses ==
  /\ clock' = [id \in Ids |->
       [sinceTerminal |->
          IF MapHas(pendingRequests, id)
               /\ pendingRequests[id].status \in {"completed", "failed"}
            THEN Min(clock[id].sinceTerminal + 1, CleanupDelay)
            ELSE clock[id].sinceTerminal,
        sinceTimerSet |->
          IF timer[id] = "armed"
            THEN Min(clock[id].sinceTimerSet + 1, CleanupDelay)
            ELSE clock[id].sinceTimerSet]]
  /\ clock' # clock
  /\ UNCHANGED <<handlerVars, lastQuery, retry, callback, integrity, wallet, idgen>>

\* Variant: the cleanup runs as soon as the job has ended.
TimedCleanup_Early(id) == Cleanup(id)

\* The cleanup callback runs no earlier than the delay after setTimeout.
TimedCleanup(id) ==
  /\ clock[id].sinceTimerSet >= CleanupDelay
  /\ Cleanup(id)

\* ------------------------------------------------------------ specifications
Receive ==
  \E token \in TokenInputs, hasData \in BOOLEAN, cb \in CallbackInputs,
     isAsync \in BOOLEAN, haveToken \in BOOLEAN :
       handleConnectRequest(token, hasData, cb, isAsync, haveToken)

SyncStep(id) ==
  \/ \E o \in ConnectionOutcomes : SyncConnectionReturns(id, o)
  \/ SyncExtractSucceeds(id)
  \/ \E e \in ExtractErrors : SyncExtractFails(id, e)
  \/ \E o \in StoreOutcomes : SyncStoreReturns(id, o)

JobStep(id) ==
  \/ JobStart(id)
  \/ \E o \in CallbackOutcomes : ProcessingCallbackReturns(id, o)
  \/ \E t \in BOOLEAN : CheckAccessToken(id, t)
  \/ \E o \in ConnectionOutcomes : ConnectionReturns(id, o)
  \/ ExtractSucceeds(id)
  \/ \E e \in ExtractErrors : ExtractFails(id, e)
  \/ \E o \in StoreOutcomes : StoreReturns(id, o)
  \/ \E o \in CallbackOutcomes : CompletedCallbackReturns(id, o)
  \/ \E o \in CallbackOutcomes : FailedCallbackReturns(id, o)

Next ==
  \/ Receive
  \/ \E id \in Ids : SyncStep(id)
  \/ \E id \in Ids : JobStep(id)
  \/ \E id \in Ids : Cleanup(id)

Spec == Init /\ [][Next]_vars

\* Every queued callback and every settled promise is eventually run by the
\* event loop, and an armed timer eventually fires.
FairNext ==
  \/ (nextId < MaxFairRequests /\ Receive)
  \/ \E id \in Ids : SyncStep(id)
  \/ \E id \in Ids : JobStep(id)
  \/ \E id \in Ids : Cleanup(id)

FairSpec ==
  /\ Init /\ [][FairNext]_vars
  /\ \A id \in Ids : WF_vars(SyncStep(id))
  /\ \A id \in Ids : WF_vars(JobStep(id))
  /\ \A id \in Ids : WF_vars(Cleanup(id))

\* The handler with time passing, for one request: the cleanup timer fires
\* once the retention delay has passed since it was set.
TimedNext ==
  \/ (nextId < MaxFairRequests /\ Receive)
  \/ \E id \in Ids : SyncStep(id)
  \/ \E id \in Ids : JobStep(id)
  \/ \E id \in Ids : TimedCleanup(id)
  \/ MinutePasses

TimedSpec == Init /\ [][TimedNext]_vars

\* The handler with status queries arriving at any moment.
QueryNext ==
  \/ (nextId < MaxQueryRequests /\ Receive)
  \/ \E id \in Ids : SyncStep(id)
  \/ \E id \in Ids : JobStep(id)
  \/ \E id \in Ids : Cleanup(id)
  \/ \E id \in Ids : QueryStatus(id)

QuerySpec == Init /\ [][QueryNext]_vars

\* ------------------------------------------------------------- vocabulary
Terminal == {"completed", "failed"}

IsAsync(id) == mode[id] = "async"

Stored(id) == MapHas(pendingRequests, id)

StatusOf(id) == pendingRequests[id].status

Acknowledged(id) == \E k \in 1..Len(responses[id]) : responses[id][k] = AckResponse

Last(seq) == seq[Len(seq)]

\* The status changes the lifecycle allows.
AllowedTransitions ==
  { <<"pending", "processing">>, <<"processing", "completed">>,
    <<"processing", "failed">> }

\* ------------------------------------------------------------------ claims
\* C1: the status of a stored record changes only along
\* pending -> processing -> completed or pending -> processing -> failed;
\* in particular a completed or failed record never changes status again.
C1_StatusMonotonic ==
  [][\A id \in Ids :
       (Stored(id) /\ MapHas(pendingRequests', id)
          /\ pendingRequests'[id].status # StatusOf(id))
         => <<StatusOf(id), pendingRequests'[id].status>> \in AllowedTransitions]_vars

\* C2: the step that writes the 202 acknowledgment leaves the record
\* pending, with no notification handed to the callback client and the job
\* only queued; and whenever the job of an asynchronous request has made
\* any progress the acknowledgment has already been written.
C2_AckBeforeJob ==
  /\ [][\A id \in Ids :
          (~Acknowledged(id) /\ Acknowledged(id)')
            => /\ MapHas(pendingRequests', id)
               /\ pendingRequests'[id].status = "pending"
               /\ notifs'[id] = <<>>
               /\ pc'[id] = "scheduled"]_vars
  /\ [](\A id \in Ids :
          (IsAsync(id) /\ (pc[id] # "scheduled" \/ notifs[id] # <<>>
                            \/ (Stored(id) /\ StatusOf(id) # "pending")))
            => Acknowledged(id))

C2_Witness ==
  \E id \in Ids :
    /\ IsAsync(id) /\ Acknowledged(id) /\ pc[id] = "scheduled"
    /\ Stored(id) /\ StatusOf(id) = "pending" /\ callbackUrl[id] = GoodUrl

\* C3: the record of an accepted asynchronous request that is pending or
\* processing eventually becomes completed or failed, and a job that has
\* ended never leaves its record pending or processing.
C3_EventuallyTerminal ==
  /\ \A id \in Ids :
       (IsAsync(id) /\ Stored(id) /\ StatusOf(id) \notin Terminal)
         ~> (Stored(id) /\ StatusOf(id) \in Terminal)
  /\ [](\A id \in Ids :
          (IsAsync(id) /\ pc[id] = "done" /\ Stored(id))
            => StatusOf(id) \in Terminal)

C3_Witness ==
  \E id \in Ids :
    /\ IsAsync(id) /\ pc[id] = "done" /\ Stored(id)
    /\ StatusOf(id) = "failed" /\ caught[id] = ErrConnRaised

\* C4: however the processing notification settles (success, failure
\* result or rejection), the job goes on to the access-token check and the
\* connection test with its record still processing.
C4_ProcessingFailureDoesNotAbort ==
  [][\A id \in Ids :
       (pc[id] = "processingCallback" /\ pc'[id] # "processingCallback")
         => /\ pc'[id] = "accessToken"
            /\ MapHas(pendingRequests', id)
            /\ pendingRequests'[id].status = "processing"]_vars

\* C5: an asynchronous record fails on an extraction failure only when
\* that failure is not retryable or maxAttempts extraction attempts were made.
C5_ExtractionRetried ==
  \A id \in Ids :
    (IsAsync(id) /\ caught[id].kind = "extract")
      => (~isRetryable(caught[id]) \/ extractCalls[id] = maxAttempts)

\* C6: the step at which the storage call settles with a failure (a result
\* with success=false or a rejection) makes an asynchronous record
\* completed with the extracted result and a failed wallet result, and
\* answers a synchronous caller with success and stored=false; extraction
\* is invoked at most once per request.
C6_StorageFailureIsPartialSuccess ==
  /\ [][\A id \in Ids :
          /\ (pc[id] = "store" /\ pc'[id] # "store" /\ settled'[id] # "ok")
               => /\ MapHas(pendingRequests', id)
                  /\ pendingRequests'[id].status = "completed"
                  /\ pendingRequests'[id].result = "data"
                  /\ pendingRequests'[id].walletResult = "failed"
                  /\ extractCalls'[id] = extractCalls[id]
          /\ (pc[id] = "syncStore" /\ pc'[id] # "syncStore" /\ settled'[id] # "ok")
               => /\ responses'[id] = <<SuccessResponse(FALSE)>>
                  /\ extractCalls'[id] = extractCalls[id]]_vars
  /\ [](\A id \in Ids : extractCalls[id] <= 1)

C6_Witness ==
  /\ \E id \in Ids :
       /\ IsAsync(id) /\ Stored(id) /\ StatusOf(id) = "completed"
       /\ pendingRequests[id].walletResult = "failed" /\ extractCalls[id] = 1
  /\ \E id \in Ids :
       /\ mode[id] = "sync" /\ responses[id] = <<SuccessResponse(FALSE)>>

\* C7: once the job of a request has ended, a completed or failed record
\* still in the map has its cleanup timer pending.
C7_TerminalRecordEvicted ==
  \A id \in Ids :
    (IsAsync(id) /\ pc[id] = "done" /\ Stored(id) /\ StatusOf(id) \in Terminal)
      => timer[id] = "armed"

\* C8: every completed or failed notification handed to the callback
\* client for a request comes after a processing notification for it.
C8_ProcessingBeforeTerminal ==
  \A id \in Ids :
    \A k \in 1..Len(notifs[id]) :
      notifs[id][k] \in Terminal
        => \E j \in 1..(k - 1) : notifs[id][j] = "processing"

C8_Witness ==
  \E id \in Ids :
    /\ Len(notifs[id]) >= 2 /\ notifs[id][1] = "processing"
    /\ notifs[id][2] \in Terminal

\* C9: the job of an asynchronous request accepted with a callback URL
\* eventually ends with a terminal notification handed to the callback
\* client, and the last notification handed over for an ended job carries
\* the status of the request's record.
C9_TerminalNotification ==
  /\ \A id \in Ids :
       (IsAsync(id) /\ Truthy(callbackUrl[id]) /\ pc[id] # "done")
         ~> (pc[id] = "done" /\ Stored(id) /\ notifs[id] # <<>>
               /\ Last(notifs[id]) \in Terminal
               /\ Last(notifs[id]) = StatusOf(id))
  /\ [](\A id \in Ids :
          (IsAsync(id) /\ Truthy(callbackUrl[id]) /\ pc[id] = "done" /\ Stored(id))
            => (notifs[id] # <<>> /\ Last(notifs[id]) = StatusOf(id)))

C9_Witness ==
  \E id \in Ids :
    /\ IsAsync(id) /\ callbackUrl[id] = GoodUrl /\ pc[id] = "done"
    /\ Stored(id) /\ StatusOf(id) = "completed"
    /\ Last(notifs[id]) = "completed"

\* C10: for a request whose body carries no callback URL (absent or empty)
\* nothing is ever handed to the callback client.
C10_NoUrlNoCallback ==
  \A id \in Ids : ~Truthy(callbackUrl[id]) => notifs[id] = <<>>

C10_Witness ==
  \E id \in Ids :
    /\ IsAsync(id) /\ ~Truthy(callbackUrl[id]) /\ pc[id] = "done"
    /\ Stored(id) /\ StatusOf(id) = "failed"

\* C11: a getRequestStatus call changes nothing of the handler's state,
\* returns not-found exactly when the map does not hold the requestId
\* (never generated, or evicted), and returns status pending for a stored
\* pending record.
C11_StatusQueryIsPure ==
  [][lastQuery' # lastQuery
       => /\ UNCHANGED handlerVars
          /\ (lastQuery'.result = NotFound) <=> ~Stored(lastQuery'.id)
          /\ Stored(lastQuery'.id)
               => lastQuery'.result.status = StatusOf(lastQuery'.id)]_vars

C11_Witness ==
  /\ lastQuery.id \in Ids /\ Stored(lastQuery.id)
  /\ StatusOf(lastQuery.id) = "pending"
  /\ lastQuery.result.status = "pending"

\* C12: a stored record that is pending or processing has completedAt
\* unset, in the record and in what getRequestStatus reports for it.
C12_CompletedAtOnlyWhenTerminal ==
  \A id \in Ids :
    (Stored(id) /\ StatusOf(id) \in {"pending", "processing"})
      => /\ pendingRequests[id].completedAt = "unset"
         /\ getRequestStatus(id).completedAt = "unset"

C12_Witness ==
  \E id \in Ids :
    /\ Stored(id) /\ StatusOf(id) = "processing" /\ pc[id] = "store"
    /\ getRequestStatus(id).completedAt = "unset"

C14_SyncLeavesMapAlone ==
  /\ [](\A id \in Ids :
          mode[id] = "sync" => (~Stored(id) /\ getRequestStatus(id) = NotFound))
  /\ [][\A id \in Ids :
          (mode'[id] = "sync" /\ (mode[id] # "sync" \/ pc'[id] # pc[id]))
            => pendingRequests' = pendingRequests]_vars

C14_Witness ==
  \E id \in Ids, other \in Ids :
    /\ mode[id] = "sync" /\ responses[id] = <<SuccessResponse(TRUE)>>
    /\ getRequestStatus(id) = NotFound
    /\ Stored(other)

\* C15: a request that fails validation gets exactly one error response
\* (401 or 400) and nothing else: no record, no job, no call of the
\* connector, the wallet client or the callback client; the step that
\* rejects it leaves the map as it was, and no stored record carries a
\* malformed callback URL.
C15_RejectedHasNoEffect ==
  /\ [](\A id \in Ids :
          mode[id] = "rejected"
            => /\ Len(responses[id]) = 1
               /\ responses[id][1].status = "error"
               /\ responses[id][1].http \in {400, 401}
               /\ ~Stored(id)
               /\ pc[id] = "done"
               /\ extractCalls[id] = 0 /\ storeCalls[id] = 0
               /\ notifs[id] = <<>>
               /\ timer[id] = "none")
  /\ [](\A id \in Ids : Stored(id) => pendingRequests[id].callbackUrl # BadUrl)
  /\ [][\A id \in Ids :
          (mode'[id] = "rejected" /\ mode[id] # "rejected")
            => pendingRequests' = pendingRequests]_vars

C15_Witness ==
  \E id \in Ids, other \in Ids :
    /\ mode[id] = "rejected"
    /\ responses[id] = <<ErrorResponse("invalid_callback", 400)>>
    /\ mode[other] = "rejected"
    /\ responses[other] = <<ErrorResponse("missing_token", 401)>>

\* ------------------------------------------------------------ RetryHandler claims
\* withRetry has been entered.
InWithRetry == retry.pc # "idle"

\* The status codes the classification treats as retryable when the failure
\* carries no flag.
RetryableStatus == {429, 500, 502, 503, 504}

\* A failure that is to be retried: the flag where present, else the status.
ToBeRetried(e) ==
  IF e.retryable = "unset"
    THEN e.status \in RetryableStatus \/ e.statusCode \in RetryableStatus
    ELSE e.retryable = "true"

\* Every invocation the handler may make fails with a failure to be retried.
AlwaysFailsRetryable ==
  \A k \in 1..retry.max :
    PlannedOutcome(k).kind = "error" /\ ToBeRetried(PlannedOutcome(k))

\* Index of the first successful invocation of the operation, 0 if none.
FirstSuccess ==
  LET S == { k \in 1..Len(retry.plan) : retry.plan[k].kind = "ok" }
  IN  IF S = {} THEN 0 ELSE CHOOSE k \in S : \A j \in S : k <= j

\* C16: an operation that always fails with a retryable failure is invoked
\* exactly maxAttempts times, never returns, and the failure raised is that
\* of the last attempt.
C16_ExhaustsAttempts ==
  (InWithRetry /\ AlwaysFailsRetryable) =>
     /\ retry.calls <= retry.max
     /\ retry.pc # "returned"
     /\ retry.pc = "thrown" =>
          /\ retry.calls = retry.max
          /\ retry.sleeps = retry.max - 1
          /\ retry.thrownAt = retry.max
          /\ retry.thrown = PlannedOutcome(retry.max)

C16_Witness ==
  /\ InWithRetry
  /\ AlwaysFailsRetryable
  /\ retry.pc = "thrown"
  /\ retry.max = 3
  /\ retry.calls = 3
  /\ retry.thrown # PlannedOutcome(1)

\* C17: an operation whose first invocation fails with a non-retryable
\* failure is invoked exactly once, is never followed by a sleep, and the
\* failure raised is that failure, whatever maxAttempts is.
C17_NonRetryableRaisedAtOnce ==
  (/\ InWithRetry
   /\ PlannedOutcome(1).kind = "error"
   /\ ~ToBeRetried(PlannedOutcome(1))) =>
     /\ retry.calls <= 1
     /\ retry.sleeps = 0
     /\ retry.pc \in {"attempt", "await", "thrown"}
     /\ retry.pc = "thrown" =>
          /\ retry.calls = 1
          /\ retry.thrownAt = 1
          /\ retry.thrown = PlannedOutcome(1)

C17_Witness ==
  /\ InWithRetry
  /\ retry.pc = "thrown"
  /\ retry.max = 3
  /\ retry.calls = 1
  /\ retry.sleeps = 0
  /\ retry.thrown = Outcome("error", "unset", 400, 0, NoRetryAfter, NoHeader)

\* C18: a failure is followed by a sleep (is retried) only if its flag says
\* so or, the flag absent, its status code is one of 429, 500, 502, 503,
\* 504; a failure raised while attempts remain has the flag false or, the
\* flag absent, a status code outside that set.
C18_FlagWinsOverStatus ==
  InWithRetry =>
    /\ retry.pc = "sleep" =>
         IF retry.lastError.retryable = "unset"
           THEN \/ retry.lastError.status \in {429, 500, 502, 503, 504}
                \/ retry.lastError.statusCode \in {429, 500, 502, 503, 504}
           ELSE retry.lastError.retryable = "true"
    /\ (retry.pc = "thrown" /\ retry.thrownAt < retry.max) =>
         IF retry.thrown.retryable = "unset"
           THEN /\ retry.thrown.status \notin {429, 500, 502, 503, 504}
                /\ retry.thrown.statusCode \notin {429, 500, 502, 503, 504}
           ELSE retry.thrown.retryable = "false"

C18_Witness ==
  /\ InWithRetry
  /\ retry.pc = "thrown"
  /\ retry.max = 3
  /\ retry.calls = 2
  /\ retry.sleeps = 1
  /\ PlannedOutcome(1) = Outcome("error", "true", 400, 0, NoRetryAfter, NoHeader)
  /\ retry.thrown = Outcome("error", "false", 503, 0, NoRetryAfter, NoHeader)

\* C19: withRetry never invokes the operation more than maxAttempts times
\* nor past its first success; once it has returned, the value is that of
\* the first successful invocation, the number of invocations is its index,
\* and nothing further happens.
C19_ReturnsAtFirstSuccess ==
  InWithRetry =>
    /\ retry.calls <= retry.max
    /\ FirstSuccess # 0 => retry.calls <= FirstSuccess
    /\ retry.returnedAt # 0 =>
         /\ retry.pc = "returned"
         /\ retry.returnedAt = FirstSuccess
         /\ retry.calls = FirstSuccess

C19_Witness ==
  /\ InWithRetry
  /\ retry.pc = "returned"
  /\ retry.max = 3
  /\ retry.calls = 2
  /\ retry.returnedAt = 2
  /\ PlannedOutcome(3).kind = "ok"

\* The explicit retry-after duration (seconds) a failure carries: that of
\* the failure object, else that of a numeric Retry-After header; -1 if none.
ExplicitRetryAfter(e) ==
  IF e.retryAfter >= 0 THEN e.retryAfter
  ELSE IF e.header = "0" THEN 0
  ELSE IF e.header = "3" THEN 3
  ELSE -1

\* C20: when a failure with an explicit non-negative retry-after duration is
\* followed by a sleep, the sleep lasts exactly that duration.
C20_RetryAfterVerbatim ==
  (/\ InWithRetry
   /\ retry.pc = "sleep"
   /\ ExplicitRetryAfter(retry.lastError) >= 0) =>
     retry.delay = ExplicitRetryAfter(retry.lastError) * 1000

\* A connectivity failure: no HTTP status code and no retryable flag.
IsConnectivityFailure(e) ==
  e.kind = "error" /\ e.retryable = "unset" /\ e.status = 0 /\ e.statusCode = 0

\* C21: a connectivity failure met while attempts remain is not raised; the
\* operation is invoked again after a sleep.
C21_ConnectivityFailureRetried ==
  (/\ InWithRetry
   /\ IsConnectivityFailure(PlannedOutcome(1))
   /\ retry.max >= 2
   /\ retry.calls >= 1
   /\ retry.pc # "await") =>
     /\ retry.pc # "thrown" \/ retry.thrownAt > 1
     /\ retry.sleeps >= 1

\* ------------------------------------------------------------ CallbackClient claims
\* sendCallback has been called.
InSendCallback == callback.pc # "idle"

\* sendCallback has returned to its caller.
CallbackReturned == callback.pc = "returned"

\* URLs whose host is loopback, private or link-local, or whose scheme is
\* neither http nor https.
UnsafeUrls ==
  {"http://127.0.0.1/x", "http://10.0.0.5/x", "http://169.254.1.1/x", "ftp://example.com/x"}

\* C22: for a URL with a local host or a scheme other than http(s) no HTTP
\* request is made and the result has success = false.
C22_UnsafeUrlNotPosted ==
  (InSendCallback /\ callback.url \in UnsafeUrls) =>
     /\ callback.posts = 0
     /\ CallbackReturned => callback.result.success = FALSE

\* C23: when the first POST is answered with a 4xx status other than 429,
\* resolved or rejected alike, no second POST is made and the result has
\* success = false.
C23_ClientErrorNotRetried ==
  (/\ InSendCallback
   /\ callback.url = "https://example.com/cb"
   /\ PlannedPost(1).status >= 400 /\ PlannedPost(1).status < 500
   /\ PlannedPost(1).status # 429) =>
     /\ callback.posts <= 1
     /\ CallbackReturned => callback.result.success = FALSE

\* A POST answered 2xx; a POST failing with a 5xx answer or a network error.
Is2xx(post) == post.settle = "resolve" /\ post.status >= 200 /\ post.status < 300
IsServerOrNetworkFailure(post) ==
  post.settle = "reject" /\ (post.status = 0 \/ post.status >= 500)

\* Index of the first POST answered 2xx among the first maxRetries, 0 if none.
FirstDelivered ==
  LET S == { k \in 1..callback.maxRetries : Is2xx(PlannedPost(k)) }
  IN  IF S = {} THEN 0 ELSE CHOOSE k \in S : \A j \in S : k <= j

\* C24: when every POST either is answered 2xx or fails with a 5xx answer or
\* a network error, at most maxRetries POSTs are made; the delivery stops at
\* the first 2xx with success = true and attempts = number of POSTs; after
\* maxRetries failed POSTs the result has success = false and its error
\* names the failure of the last POST.
C24_RetriesServerErrors ==
  (/\ InSendCallback
   /\ callback.url = "https://example.com/cb"
   /\ \A k \in 1..callback.maxRetries :
        Is2xx(PlannedPost(k)) \/ IsServerOrNetworkFailure(PlannedPost(k))) =>
     /\ callback.posts <= callback.maxRetries
     /\ FirstDelivered # 0 => callback.posts <= FirstDelivered
     /\ (CallbackReturned /\ FirstDelivered # 0) =>
          /\ callback.result.success = TRUE
          /\ callback.posts = FirstDelivered
          /\ callback.result.attempts = callback.posts
     /\ (CallbackReturned /\ FirstDelivered = 0) =>
          /\ callback.result.success = FALSE
          /\ callback.posts = callback.maxRetries
          /\ callback.sleeps = callback.maxRetries - 1
          /\ callback.result.error.all = callback.maxRetries
          /\ callback.result.error.last.status = PlannedPost(callback.maxRetries).status

C24_Witness ==
  /\ InSendCallback
  /\ CallbackReturned
  /\ callback.url = "https://example.com/cb"
  /\ callback.maxRetries = 3
  /\ callback.posts = 3
  /\ callback.result.success = FALSE
  /\ PlannedPost(1) = Post("reject", 0)
  /\ PlannedPost(2) = Post("reject", 503)
  /\ PlannedPost(3) = Post("reject", 503)

\* C25: without a URL no HTTP request is made and the result returned is
\* not an error: it has no error field and does not say success = false.
C25_NoUrlIsSkipped ==
  (/\ InSendCallback
   /\ callback.url \in {"undefined", ""}) =>
     /\ callback.posts = 0
     /\ CallbackReturned =>
          /\ "error" \notin DOMAIN callback.result
          /\ "success" \in DOMAIN callback.result => callback.result.success = TRUE

\* C26: sendCallback never raises; whatever the POSTs settle with, what it
\* hands its caller is a result object with a success flag.
C26_NeverRaises ==
  InSendCallback =>
    /\ callback.pc \in {"called", "post", "await", "sleep", "returned"}
    /\ CallbackReturned => "success" \in DOMAIN callback.result

C26_Witness ==
  /\ InSendCallback
  /\ CallbackReturned
  /\ callback.posts = 2
  /\ PlannedPost(1) = Post("reject", 503)
  /\ PlannedPost(2) = Post("reject", 404)
  /\ callback.result.success = FALSE

\* C27: every result returned for a non-empty URL carries success, attempts
\* and duration, and on failure the error message too.
C27_ResultCarriesAttempts ==
  (/\ InSendCallback
   /\ CallbackReturned
   /\ callback.url \notin {"undefined", ""}) =>
     /\ {"success", "attempts", "duration"} \subseteq DOMAIN callback.result
     /\ callback.result.success = FALSE => "error" \in DOMAIN callback.result

\* ------------------------------------------------------------ Integrity claims
\* C28: the checksum computed for a payload rebuilt with the keys of its
\* mappings inserted in another order, at any depth, equals the checksum
\* computed before.
C28_ChecksumIgnoresKeyOrder ==
  (integrity.pc = "computed" /\ integrity.previous # NoChecksum) =>
     integrity.checksum = integrity.previous

C28_Witness ==
  /\ integrity.pc = "computed"
  /\ integrity.previous # NoChecksum
  /\ integrity.data =
       Obj(<< <<"a", Arr(<< Obj(<< <<"b", Num(1)>>, <<"a", Str(<<"a">>)>> >>) >>)>> >>)

\* C29: verify_checksum(p, c) is true for the checksum compute_checksum
\* returned for p and false for every other c.
C29_VerifyAcceptsOnlyOwnChecksum ==
  integrity.pc = "verified" =>
    /\ integrity.checksum \notin {NoChecksum, ChecksumThrown}
    /\ integrity.expected = integrity.checksum => integrity.verified = "true"
    /\ integrity.expected # integrity.checksum => integrity.verified = "false"

C29_Witness ==
  /\ integrity.pc = "verified"
  /\ integrity.verified = "true"
  /\ integrity.previous # NoChecksum
  /\ integrity.data = Obj(<< <<"b", Arr(<<Num(1)>>)>>, <<"a", Str(<<"a">>)>> >>)

\* C30: the envelope prepareWalletData builds carries under
\* metadata.checksum the checksum of its data field, which verify_checksum
\* then accepts.
C30_EnvelopeChecksumOfData ==
  integrity.pc = "envelope verified" =>
    /\ integrity.expected = integrity.checksum
    /\ integrity.verified = "true"

\* ------------------------------------------------------------ WalletClient claims
\* The write failed with a duplicate-data condition.
DuplicateWrite ==
  /\ wallet.posts = 1
  /\ wallet.writeOutcome.settle = "reject"
  /\ "Duplicate data" \in {wallet.writeOutcome.cause, wallet.writeOutcome.message}

\* The authentication or the write failed otherwise.
OtherStoreFailure ==
  \/ wallet.tokenCalls = 1 /\ wallet.tokenOutcome = "fail"
  \/ /\ wallet.posts = 1
     /\ wallet.writeOutcome.settle = "reject"
     /\ "Duplicate data" \notin {wallet.writeOutcome.cause, wallet.writeOutcome.message}

\* C31: storeData never raises; a duplicate-data failure of the write gives
\* success = true and isDuplicate = true, every other failure gives
\* success = false with the error message.
C31_StoreDataResult ==
  wallet.pc # "idle" =>
    /\ wallet.pc \in {"called", "token", "post", "returned"}
    /\ (wallet.pc = "returned" /\ DuplicateWrite) =>
         wallet.result.success = "true" /\ wallet.result.isDuplicate = "true"
    /\ (wallet.pc = "returned" /\ OtherStoreFailure) =>
         wallet.result.success = "false" /\ wallet.result.error # "absent"

\* ------------------------------------------------------------ request id claims
\* C32: the ids generated by one handler are pairwise different, and
\* accepting a request never replaces the record of an earlier request that
\* is still stored.
C32_RequestIdsUnique ==
  idgen.pc # "idle" =>
    /\ \A i, j \in 1..Len(idgen.generated) :
         i # j => idgen.generated[i] # idgen.generated[j]
    /\ idgen.overwritten = {}

C34_DelayWithinJitter ==
  (retry.pc = "calculated" /\ ExplicitRetryAfter(retry.error) < 0) =>
    LET k == retry.attempt
        power == baseDelay * Pow(backoffMultiplier, k - 1)
        d == IF power < maxDelay THEN power ELSE maxDelay
    IN  /\ 4 * retry.delay >= 3 * d
        /\ 4 * retry.delay <= 5 * d
        /\ retry.delay >= 0

\* A capped backoff with the largest downward jitter.
C34_Witness ==
  /\ retry.pc = "calculated"
  /\ ExplicitRetryAfter(retry.error) < 0
  /\ retry.attempt = MaxAttempt
  /\ 4 * retry.delay = 3 * maxDelay

\* ------------------------------------------------------------ notification claims
\* C35: at most one notification with status completed or failed is handed
\* to the callback client for a request.
C35_OneTerminalNotification ==
  \A id \in Ids :
    Cardinality({ k \in 1..Len(notifs[id]) : notifs[id][k] \in Terminal }) <= 1

\* A notification of the request is with the callback client, not settled yet.
NotificationInFlight(id) ==
  pc[id] \in {"processingCallback", "completedCallback", "failedCallback"}

\* C36: when a notification with status s is handed to the callback client
\* the stored record of the request has status s, and keeps it while the
\* notification is in flight.
C36_RecordHasNotifiedStatus ==
  /\ [][\A id \in Ids :
          Len(notifs'[id]) > Len(notifs[id]) =>
            /\ MapHas(pendingRequests', id)
            /\ pendingRequests'[id].status = notifs'[id][Len(notifs'[id])]]_vars
  /\ [](\A id \in Ids :
          NotificationInFlight(id) => (Stored(id) /\ StatusOf(id) = Last(notifs[id])))

C36_Witness ==
  \E id \in Ids :
    /\ pc[id] = "completedCallback"
    /\ notifs[id] = <<"processing", "completed">>
    /\ StatusOf(id) = "completed"

\* ------------------------------------------------------------ response claims
\* handleConnectRequest was invoked for the request and has returned: the
\* synchronous path is not waiting for the connector or the wallet.
InvocationEnded(id) ==
  mode[id] # "none" /\ pc[id] \notin {"syncConnection", "syncExtract", "syncStore"}

\* C37: an invocation of handleConnectRequest never writes two responses,
\* has written exactly one when it returns, and after the 202
\* acknowledgment nothing more is written to the response.
C37_ExactlyOneResponse ==
  /\ [](\A id \in Ids :
          /\ Len(responses[id]) <= 1
          /\ InvocationEnded(id) => Len(responses[id]) = 1)
  /\ [][\A id \in Ids : Acknowledged(id) => responses'[id] = responses[id]]_vars

\* A failed synchronous request and a failed asynchronous job, each with its
\* one response.
C37_Witness ==
  \E a, b \in Ids :
    /\ mode[a] = "sync" /\ pc[a] = "done" /\ caught[a] # NoError
    /\ Len(responses[a]) = 1
    /\ IsAsync(b) /\ pc[b] = "done" /\ Stored(b) /\ StatusOf(b) = "failed"
    /\ responses[b] = <<AckResponse>>

\* ------------------------------------------------------------ ordering claims
\* The request failed before the extraction: no access token, or the
\* connection test failed or raised.
FailedBeforeExtraction(id) ==
  \/ caught[id] \in {ErrNoToken, ErrConnFailed, ErrConnRaised}
  \/ \E k \in 1..Len(responses[id]) :
       responses[id][k] \in {ErrorResponse("no_token", 400),
                             ErrorResponse("connection_failed", 503)}

\* C38: in both modes the extraction is invoked only by the step in which
\* the connection test (made with the access token) succeeds, the storage
\* only by the step in which the extraction succeeds; a request that failed
\* before the extraction, or whose extraction failed, never reaches the
\* storage.
C38_StepsOrderedAndGated ==
  /\ [][\A id \in Ids :
          /\ extractCalls'[id] # extractCalls[id] =>
               /\ extractCalls[id] = 0 /\ extractCalls'[id] = 1
               /\ pc[id] \in {"connection", "syncConnection"}
               /\ settled'[id] = "ok"
          /\ storeCalls'[id] # storeCalls[id] =>
               /\ storeCalls[id] = 0 /\ storeCalls'[id] = 1
               /\ extractCalls[id] = 1
               /\ pc[id] \in {"extract", "syncExtract"}
               /\ settled'[id] = "ok"]_vars
  /\ [](\A id \in Ids :
          /\ storeCalls[id] <= extractCalls[id]
          /\ FailedBeforeExtraction(id) => (extractCalls[id] = 0 /\ storeCalls[id] = 0)
          /\ caught[id] \in ExtractErrors => storeCalls[id] = 0)

\* A synchronous request stopped by its connection test, and an
\* asynchronous one whose extraction failed.
C38_Witness ==
  \E a, b \in Ids :
    /\ mode[a] = "sync" /\ pc[a] = "done" /\ FailedBeforeExtraction(a)
    /\ IsAsync(b) /\ pc[b] = "done" /\ caught[b] \in ExtractErrors
    /\ extractCalls[b] = 1 /\ storeCalls[b] = 0

\* ------------------------------------------------------------ shape claims
\* The type of a payload, with the length of an array and the keys of a
\* mapping.
ShapeOf(value) ==
  CASE value[1] = "array" -> <<"array", Len(value[2])>>
    [] value[1] = "object" -> <<"object", SortedKeys(value[2])>>
    [] OTHER -> <<value[1], 0>>

\* C39: two payloads that differ in type or structure never have the same
\* checksum.
C39_DifferentShapeDifferentChecksum ==
  (integrity.pc = "both" /\ ShapeOf(integrity.data) # ShapeOf(integrity.other)) =>
    integrity.checksum # integrity.otherChecksum

====
